---- MODULE Spec2Model ----
(***************************************************************************)
(* The external scanner of tree-sitter-xonsh (src/src/scanner.c) as a      *)
(* state machine.  The persistent state is the Scanner struct (indent      *)
(* stack, delimiter stack, inside_f_string); the operations are scan,      *)
(* serialize and deserialize.  The host parser is the environment: it      *)
(* owns the input text and the committed position, chooses the valid       *)
(* symbols of every scan call and lexes the tokens the scanner declines.   *)
(*                                                                         *)
(* Characters are one-character strings; NUL stands for the lookahead 0    *)
(* the lexer reports at end of input and BQ for the backquote.  Positions  *)
(* are 1-based indices into text; Len(text) + 1 is the end of input.       *)
(***************************************************************************)
EXTENDS Integers, Sequences, FiniteSets, TLC

VARIABLES text, pos, indents, delimiters, inside_f_string, buffer, last

vars == <<text, pos, indents, delimiters, inside_f_string, buffer, last>>

(***************************************************************************)
(* enum TokenType                                                          *)
(***************************************************************************)
TokenType ==
    { "NEWLINE", "INDENT", "DEDENT", "STRING_START", "STRING_CONTENT",
      "ESCAPE_INTERPOLATION", "STRING_END", "COMMENT", "CLOSE_PAREN",
      "CLOSE_BRACKET", "CLOSE_BRACE", "EXCEPT", "SUBPROCESS_START",
      "LOGICAL_AND", "LOGICAL_OR", "BACKGROUND_AMP", "KEYWORD_AND",
      "KEYWORD_OR", "SUBPROCESS_MACRO_START", "BLOCK_MACRO_START",
      "PATH_PREFIX" }

(***************************************************************************)
(* enum Flags and the Delimiter byte.  A delimiter is the value of its     *)
(* one char of flags, 0..127.                                              *)
(***************************************************************************)
SingleQuote == 1
DoubleQuote == 2
BackQuote == 4
Raw == 8
Format == 16
Triple == 32
Bytes == 64

NUL == "NUL"
SQ == "'"
DQ == "\""
BQ == "BACKQUOTE"
BSL == "\\"
NL == "\n"
CR == "\r"
FF == "\f"
TAB == "\t"
SP == " "

HasFlag(flags, bit) == (flags \div bit) % 2 = 1
WithFlag(flags, bit) == IF HasFlag(flags, bit) THEN flags ELSE flags + bit

new_delimiter == 0
is_format(d) == HasFlag(d, Format)
is_raw(d) == HasFlag(d, Raw)
is_triple(d) == HasFlag(d, Triple)
is_bytes(d) == HasFlag(d, Bytes)

end_character(d) ==
    IF HasFlag(d, SingleQuote) THEN SQ
    ELSE IF HasFlag(d, DoubleQuote) THEN DQ
    ELSE IF HasFlag(d, BackQuote) THEN BQ
    ELSE NUL

set_format(d) == WithFlag(d, Format)
set_raw(d) == WithFlag(d, Raw)
set_triple(d) == WithFlag(d, Triple)
set_bytes(d) == WithFlag(d, Bytes)

set_end_character(d, c) ==
    IF c = SQ THEN WithFlag(d, SingleQuote)
    ELSE IF c = DQ THEN WithFlag(d, DoubleQuote)
    ELSE WithFlag(d, BackQuote)

(***************************************************************************)
(* The TSLexer cursor: lookahead, eof and advance over the input text.     *)
(* skip is advance with the skip bit: it moves the cursor the same way and *)
(* additionally moves the start of the token to the new cursor.            *)
(***************************************************************************)
EndOfInput == Len(text) + 1
lookahead(i) == IF i <= Len(text) THEN text[i] ELSE NUL
eof(i) == i > Len(text)
advance(i) == IF i <= Len(text) THEN i + 1 ELSE i
skip(i) == advance(i)

(***************************************************************************)
(* Character predicates.                                                   *)
(***************************************************************************)
LowerCase ==
    { "a","b","c","d","e","f","g","h","i","j","k","l","m",
      "n","o","p","q","r","s","t","u","v","w","x","y","z" }
UpperCase ==
    { "A","B","C","D","E","F","G","H","I","J","K","L","M",
      "N","O","P","Q","R","S","T","U","V","W","X","Y","Z" }
Digits == { "0","1","2","3","4","5","6","7","8","9" }

is_identifier_start(c) == c \in LowerCase \/ c \in UpperCase \/ c = "_"
is_identifier_char(c) == is_identifier_start(c) \/ c \in Digits
is_digit(c) == c \in Digits
is_whitespace(c) == c = SP \/ c = TAB
isalnum(c) == c \in LowerCase \/ c \in UpperCase \/ c \in Digits

(***************************************************************************)
(* The keyword and shell-command tables, as character sequences.           *)
(***************************************************************************)
python_keywords ==
    { <<"d","e","f">>, <<"c","l","a","s","s">>, <<"i","f">>, <<"e","l","i","f">>,
      <<"e","l","s","e">>, <<"f","o","r">>, <<"w","h","i","l","e">>, <<"t","r","y">>,
      <<"e","x","c","e","p","t">>, <<"f","i","n","a","l","l","y">>, <<"w","i","t","h">>,
      <<"i","m","p","o","r","t">>, <<"f","r","o","m">>, <<"r","e","t","u","r","n">>,
      <<"y","i","e","l","d">>, <<"r","a","i","s","e">>, <<"p","a","s","s">>,
      <<"b","r","e","a","k">>, <<"c","o","n","t","i","n","u","e">>, <<"d","e","l">>,
      <<"g","l","o","b","a","l">>, <<"n","o","n","l","o","c","a","l">>,
      <<"a","s","s","e","r","t">>, <<"l","a","m","b","d","a">>, <<"a","s","y","n","c">>,
      <<"a","w","a","i","t">>, <<"m","a","t","c","h">>, <<"c","a","s","e">>,
      <<"t","y","p","e">>, <<"x","o","n","t","r","i","b">> }

is_python_keyword(ident) == ident \in python_keywords

shell_commands ==
    { <<"c","d">>, <<"l","s">>, <<"p","w","d">>, <<"e","c","h","o">>, <<"c","a","t">>,
      <<"c","p">>, <<"m","v">>, <<"r","m">>, <<"m","k","d","i","r">>, <<"r","m","d","i","r">>,
      <<"t","o","u","c","h">>, <<"c","h","m","o","d">>, <<"c","h","o","w","n">>, <<"l","n">>,
      <<"h","e","a","d">>, <<"t","a","i","l">>, <<"l","e","s","s">>, <<"m","o","r","e">>,
      <<"g","r","e","p">>, <<"f","i","n","d">>, <<"s","e","d">>, <<"a","w","k">>,
      <<"s","o","r","t">>, <<"u","n","i","q">>, <<"w","c">>, <<"c","u","t">>, <<"t","r">>,
      <<"x","a","r","g","s">>, <<"m","a","k","e">>, <<"c","m","a","k","e">>,
      <<"n","i","n","j","a">>, <<"g","r","a","d","l","e">>, <<"m","v","n">>, <<"a","n","t">>,
      <<"m","e","s","o","n">>, <<"n","p","m">>, <<"y","a","r","n">>, <<"p","n","p","m">>,
      <<"p","i","p">>, <<"p","i","p","3">>, <<"c","a","r","g","o">>, <<"g","o">>,
      <<"g","e","m">>, <<"c","o","m","p","o","s","e","r">>, <<"g","i","t">>, <<"s","v","n">>,
      <<"h","g">>, <<"b","z","r">>, <<"d","o","c","k","e","r">>, <<"p","o","d","m","a","n">>,
      <<"k","u","b","e","c","t","l">>, <<"h","e","l","m">>,
      <<"d","o","c","k","e","r","-","c","o","m","p","o","s","e">>, <<"c","u","r","l">>,
      <<"w","g","e","t">>, <<"s","s","h">>, <<"s","c","p">>, <<"r","s","y","n","c">>,
      <<"p","i","n","g">>, <<"n","c">>, <<"n","e","t","s","t","a","t">>, <<"t","a","r">>,
      <<"z","i","p">>, <<"u","n","z","i","p">>, <<"g","z","i","p">>,
      <<"g","u","n","z","i","p">>, <<"x","z">>, <<"b","z","i","p","2">>, <<"s","u","d","o">>,
      <<"s","u">>, <<"p","s">>, <<"t","o","p">>, <<"h","t","o","p">>, <<"k","i","l","l">>,
      <<"k","i","l","l","a","l","l">>, <<"d","f">>, <<"d","u">>, <<"m","o","u","n","t">>,
      <<"g","c","c">>, <<"g","+","+">>, <<"c","l","a","n","g">>,
      <<"c","l","a","n","g","+","+">>, <<"r","u","s","t","c">>, <<"j","a","v","a","c">>,
      <<"p","y","t","h","o","n">>, <<"p","y","t","h","o","n","3">>, <<"v","i">>,
      <<"v","i","m">>, <<"n","v","i","m">>, <<"n","a","n","o">>, <<"e","m","a","c","s">>,
      <<"c","o","d","e">>, <<"x","p","i","p">>, <<"c","o","m","p","l","e","t","e","r">>,
      <<"h","i","s","t","o","r","y">>, <<"r","e","p","l","a","y">>, <<"t","r","a","c","e">>,
      <<"t","i","m","e","i","t">> }

is_shell_command(ident) == ident \in shell_commands

(***************************************************************************)
(* The value of one scan call.  ok is the bool scan returns; sym is        *)
(* lexer->result_symbol when ok; endp is the marked token end; ind, del    *)
(* and ifs are the Scanner fields after the call.  The remaining fields    *)
(* record, for the properties, what the call did: via is the step that     *)
(* returned, tstart the start of the token (the cursor after the last      *)
(* skip), det the detector result (NA when it did not run), dstart and     *)
(* dcur the cursor when the detector was entered and when it returned.     *)
(***************************************************************************)
Trace0(p) == [via |-> "none", tstart |-> p, det |-> "NA", dstart |-> 0, dcur |-> 0]

Result(ok, sym, mark, S, g) ==
    [ ok |-> ok, sym |-> IF ok THEN sym ELSE "NONE", endp |-> mark,
      ind |-> S.ind, del |-> S.del, ifs |-> S.ifs,
      via |-> g.via, tstart |-> IF mark < g.tstart THEN mark ELSE g.tstart,
      det |-> g.det, dstart |-> g.dstart, dcur |-> g.dcur ]

Top(s) == s[Len(s)]
Pop(s) == SubSeq(s, 1, Len(s) - 1)

PushDelimiter(S, d) == [S EXCEPT !.del = Append(S.del, d), !.ifs = is_format(d)]
PopDelimiter(S) == [S EXCEPT !.del = Pop(S.del), !.ifs = FALSE]

(***************************************************************************)
(* The opening quote(s) of a string: one quote, or three for a triple      *)
(* quoted string.  Gives the delimiter, the cursor and the marked end.     *)
(***************************************************************************)
\* A variant that leaves out mark_end after a single opening quote.
OpenQuoteUnmarked(d, i, mark) ==
    LET q == lookahead(i)
        i1 == advance(i)
        i2 == advance(i1)
        i3 == advance(i2)
    IN  IF q = SQ \/ q = DQ
        THEN IF lookahead(i1) = q
             THEN IF lookahead(i2) = q
                  THEN [d |-> set_triple(set_end_character(d, q)), cur |-> i3, mark |-> i3]
                  ELSE [d |-> set_end_character(d, q), cur |-> i2, mark |-> mark]
             ELSE [d |-> set_end_character(d, q), cur |-> i1, mark |-> mark]
        ELSE [d |-> d, cur |-> i, mark |-> mark]

OpenQuote(d, i, mark) ==
    LET q == lookahead(i)
        i1 == advance(i)
        i2 == advance(i1)
        i3 == advance(i2)
    IN  IF q = SQ \/ q = DQ
        THEN IF lookahead(i1) = q
             THEN IF lookahead(i2) = q
                  THEN [d |-> set_triple(set_end_character(d, q)), cur |-> i3, mark |-> i3]
                  ELSE [d |-> set_end_character(d, q), cur |-> i2, mark |-> i1]
             ELSE [d |-> set_end_character(d, q), cur |-> i1, mark |-> i1]
        ELSE [d |-> d, cur |-> i, mark |-> mark]

(***************************************************************************)
(* scan, STRING_START: the prefix letters, then the quote.                 *)
(***************************************************************************)
RECURSIVE StringPrefix(_, _, _)
StringPrefix(i, d, has_flags) ==
    LET c == lookahead(i)
    IN  IF c = NUL THEN [cur |-> i, d |-> d, has_flags |-> has_flags]
        ELSE IF c = "f" \/ c = "F" THEN StringPrefix(advance(i), set_format(d), TRUE)
        ELSE IF c = "r" \/ c = "R" THEN StringPrefix(advance(i), set_raw(d), TRUE)
        ELSE IF c = "b" \/ c = "B" THEN StringPrefix(advance(i), set_bytes(d), TRUE)
        ELSE IF c # "u" /\ c # "U" THEN [cur |-> i, d |-> d, has_flags |-> has_flags]
        ELSE StringPrefix(advance(i), d, TRUE)

\* A variant that opens a string at a backquote as well.
scan_string_start_backquote(S, V, i, mark, fcil, g0) ==
    LET g == [g0 EXCEPT !.via = "string_start"]
    IN  IF fcil = -1 /\ "STRING_START" \in V
        THEN LET pre == StringPrefix(i, new_delimiter, FALSE)
                 q == OpenQuote(pre.d, pre.cur, mark)
             IN  IF lookahead(pre.cur) = BQ
                 THEN Result(TRUE, "STRING_START", advance(pre.cur),
                             PushDelimiter(S, set_end_character(pre.d, BQ)), g)
                 ELSE IF end_character(q.d) # NUL
                      THEN Result(TRUE, "STRING_START", q.mark, PushDelimiter(S, q.d), g)
                      ELSE Result(FALSE, "NONE", mark, S, g)
        ELSE Result(FALSE, "NONE", mark, S, [g0 EXCEPT !.via = "none"])

scan_string_start(S, V, i, mark, fcil, g0) ==
    LET g == [g0 EXCEPT !.via = "string_start"]
    IN  IF fcil = -1 /\ "STRING_START" \in V
        THEN LET pre == StringPrefix(i, new_delimiter, FALSE)
                 q == OpenQuote(pre.d, pre.cur, mark)
             IN  IF lookahead(pre.cur) = BQ
                 THEN Result(FALSE, "NONE", mark, S, g)
                 ELSE IF end_character(q.d) # NUL
                      THEN Result(TRUE, "STRING_START", q.mark, PushDelimiter(S, q.d), g)
                      ELSE Result(FALSE, "NONE", mark, S, g)
        ELSE Result(FALSE, "NONE", mark, S, [g0 EXCEPT !.via = "none"])

(***************************************************************************)
(* scan, PATH_PREFIX: p or P, optionally f, F, r or R, then a quote.       *)
(***************************************************************************)
IsQuote(c) == c = SQ \/ c = DQ

scan_path_prefix(S, V, i, mark, fcil, g0) ==
    LET g == [g0 EXCEPT !.via = "path_prefix"]
        i1 == advance(i)
        i2 == advance(i1)
    IN  IF fcil = -1 /\ "PATH_PREFIX" \in V /\ lookahead(i) \in {"p", "P"}
        THEN IF IsQuote(lookahead(i1))
             THEN Result(TRUE, "PATH_PREFIX", i1, S, g)
             ELSE IF lookahead(i1) \in {"f", "F", "r", "R"} /\ IsQuote(lookahead(i2))
                  THEN Result(TRUE, "PATH_PREFIX", i2, S, g)
                  ELSE Result(FALSE, "NONE", mark, S, g)
        ELSE scan_string_start(S, V, i, mark, fcil, g0)

(***************************************************************************)
(* Loops of the form  while (P(lexer->lookahead)) advance(lexer);  over a  *)
(* set of characters: the cursor after the loop is the first position at   *)
(* or after i whose character is not in the set (the end of input is       *)
(* never in it).                                                           *)
(***************************************************************************)
SkipChars(i, C) ==
    LET S == {j \in i..EndOfInput : lookahead(j) \notin C}
    IN  CHOOSE j \in S : \A k \in S : j <= k

Whitespace == {SP, TAB}
IdentifierChars == LowerCase \cup UpperCase \cup {"_"} \cup Digits
LineEnd(c) == c = NL \/ c = NUL

(***************************************************************************)
(* A buffer of at most 63 identifier characters read from cursor i:        *)
(* while (is_identifier_char(lookahead) && len < 63) { buf[len++] = ... }  *)
(***************************************************************************)
IdentBufferMax == 63

ReadIdentifierEnd(i) ==
    LET j == SkipChars(i, IdentifierChars)
    IN  IF j - i > IdentBufferMax THEN i + IdentBufferMax ELSE j

\* A variant that starts the rest-of-line scan without a shell signal, known
\* command or not.
RestInitNoCommand(ident_len, is_known_command) ==
    [ has_flag |-> FALSE, has_pipe |-> FALSE, has_redirect |-> FALSE,
      has_assignment |-> FALSE, has_call_parens |-> FALSE, has_subscript |-> FALSE,
      has_attribute |-> FALSE, has_comparison |-> FALSE, has_env_arg |-> FALSE,
      has_macro_call |-> FALSE, has_subprocess_macro |-> FALSE,
      in_string |-> FALSE, string_char |-> NUL,
      prev_was_ident_no_space |-> (ident_len > 0), prev_was_space |-> FALSE,
      seen_shell_signal |-> FALSE, prev_was_flag |-> FALSE,
      python_eval_depth |-> 0 ]

(***************************************************************************)
(* detect_subprocess_line: the rest-of-line scan.  One iteration of the    *)
(* while loop from cursor i with the flags st gives the next cursor and    *)
(* flags.                                                                  *)
(***************************************************************************)
RestInit(ident_len, is_known_command) ==
    [ has_flag |-> FALSE, has_pipe |-> FALSE, has_redirect |-> FALSE,
      has_assignment |-> FALSE, has_call_parens |-> FALSE, has_subscript |-> FALSE,
      has_attribute |-> FALSE, has_comparison |-> FALSE, has_env_arg |-> FALSE,
      has_macro_call |-> FALSE, has_subprocess_macro |-> FALSE,
      in_string |-> FALSE, string_char |-> NUL,
      prev_was_ident_no_space |-> (ident_len > 0), prev_was_space |-> FALSE,
      seen_shell_signal |-> is_known_command, prev_was_flag |-> FALSE,
      python_eval_depth |-> 0 ]

ShellFlag(st) ==
    [st EXCEPT !.has_flag = TRUE, !.seen_shell_signal = TRUE, !.prev_was_flag = TRUE]
ShellPipe(st) == [st EXCEPT !.has_pipe = TRUE, !.seen_shell_signal = TRUE]
ShellRedirect(st) == [st EXCEPT !.has_redirect = TRUE, !.seen_shell_signal = TRUE]
ShellEnvArg(st) == [st EXCEPT !.has_env_arg = TRUE, !.seen_shell_signal = TRUE]
NoIdent(st) == [st EXCEPT !.prev_was_ident_no_space = FALSE]

\* A variant in which an = after a flag is an assignment like any other.
RestStepAssign(i, st) ==
    LET c == lookahead(i)
        i1 == advance(i)
        c1 == lookahead(i1)
        i2 == advance(i1)
        c2 == lookahead(i2)
    IN  IF ~st.in_string /\ IsQuote(c)
        THEN [cur |-> i1, st |-> NoIdent([st EXCEPT !.in_string = TRUE, !.string_char = c])]
        ELSE IF st.in_string
        THEN IF c = BSL
             THEN [cur |-> IF c1 # NUL THEN i2 ELSE i1, st |-> st]
             ELSE IF c = st.string_char
                  THEN [cur |-> i1, st |-> [st EXCEPT !.in_string = FALSE]]
                  ELSE [cur |-> i1, st |-> st]
        ELSE IF c = "-"
        THEN IF c1 = "-"
             THEN [cur |-> i2,
                   st |-> NoIdent(IF is_identifier_start(c2) THEN ShellFlag(st) ELSE st)]
             ELSE [cur |-> i1,
                   st |-> NoIdent(IF is_identifier_start(c1) THEN ShellFlag(st) ELSE st)]
        ELSE IF c = "|"
        THEN IF c1 = "|"
             THEN [cur |-> i2, st |-> NoIdent(ShellPipe(st))]
             ELSE [cur |-> i1, st |-> NoIdent(IF c1 # "=" THEN ShellPipe(st) ELSE st)]
        ELSE IF c = "&"
        THEN IF c1 = "&"
             THEN [cur |-> i2, st |-> NoIdent(ShellPipe(st))]
             ELSE LET j == SkipChars(i1, Whitespace)
                  IN  [cur |-> j,
                       st |-> NoIdent(IF LineEnd(lookahead(j)) THEN ShellPipe(st) ELSE st)]
        ELSE IF c = ">"
        THEN [cur |-> i1,
              st |-> NoIdent(IF c1 = "=" THEN [st EXCEPT !.has_comparison = TRUE]
                             ELSE ShellRedirect(st))]
        ELSE IF c = "<"
        THEN [cur |-> i1,
              st |-> NoIdent(IF c1 = "=" THEN [st EXCEPT !.has_comparison = TRUE]
                             ELSE IF c1 # "<" THEN ShellRedirect(st) ELSE st)]
        ELSE IF c = "="
        THEN IF c1 = "=" /\ st.python_eval_depth = 0
             THEN [cur |-> i2,
                   st |-> NoIdent([st EXCEPT !.has_comparison = TRUE, !.prev_was_flag = FALSE])]
             ELSE IF st.python_eval_depth = 0
                       THEN [cur |-> i1,
                             st |-> NoIdent([st EXCEPT !.has_assignment = TRUE,
                                                       !.prev_was_flag = FALSE])]
                       ELSE [cur |-> i1, st |-> NoIdent(st)]
        ELSE IF c = "!"
        THEN [cur |-> i1,
              st |-> NoIdent(
                  IF c1 = "=" /\ st.python_eval_depth = 0
                  THEN [st EXCEPT !.has_comparison = TRUE]
                  ELSE IF st.prev_was_ident_no_space /\ c1 = "("
                       THEN [st EXCEPT !.has_macro_call = TRUE]
                       ELSE IF st.prev_was_ident_no_space /\ is_whitespace(c1)
                            THEN [st EXCEPT !.has_subprocess_macro = TRUE]
                            ELSE st)]
        ELSE IF c = ":"
        THEN [cur |-> i1,
              st |-> NoIdent(IF c1 = "=" /\ st.python_eval_depth = 0
                             THEN [st EXCEPT !.has_comparison = TRUE] ELSE st)]
        ELSE IF c = "(" /\ st.python_eval_depth > 0
        THEN [cur |-> i1,
              st |-> NoIdent([st EXCEPT !.python_eval_depth = st.python_eval_depth + 1])]
        ELSE IF c = ")" /\ st.python_eval_depth > 0
        THEN [cur |-> i1,
              st |-> NoIdent([st EXCEPT !.python_eval_depth = st.python_eval_depth - 1])]
        ELSE IF c = "(" /\ st.prev_was_ident_no_space /\ ~st.seen_shell_signal
        THEN [cur |-> i1, st |-> NoIdent([st EXCEPT !.has_call_parens = TRUE])]
        ELSE IF c = "[" /\ st.prev_was_ident_no_space /\ ~st.seen_shell_signal
        THEN [cur |-> i1, st |-> NoIdent([st EXCEPT !.has_subscript = TRUE])]
        ELSE IF c = "." /\ st.prev_was_ident_no_space /\ ~st.seen_shell_signal
        THEN [cur |-> i1, st |-> NoIdent([st EXCEPT !.has_attribute = TRUE])]
        ELSE IF is_identifier_start(c)
        THEN [cur |-> SkipChars(i, IdentifierChars),
              st |-> [st EXCEPT !.prev_was_ident_no_space = TRUE]]
        ELSE IF c = "$" /\ st.prev_was_space
        THEN [cur |-> i1,
              st |-> [NoIdent(IF is_identifier_start(c1) \/ c1 = "(" \/ c1 = "["
                              THEN ShellEnvArg(st) ELSE st)
                      EXCEPT !.prev_was_space = FALSE]]
        ELSE IF c = "@" /\ st.prev_was_space
        THEN IF c1 = "$"
             THEN [cur |-> i2,
                   st |-> [NoIdent(IF c2 = "(" THEN ShellEnvArg(st) ELSE st)
                           EXCEPT !.prev_was_space = FALSE]]
             ELSE IF c1 = "("
                  THEN [cur |-> i2,
                        st |-> [NoIdent(ShellEnvArg(st))
                                EXCEPT !.python_eval_depth = 1, !.prev_was_space = FALSE]]
                  ELSE [cur |-> i1, st |-> [NoIdent(st) EXCEPT !.prev_was_space = FALSE]]
        ELSE IF is_whitespace(c)
        THEN [cur |-> i1,
              st |-> [NoIdent(st) EXCEPT !.prev_was_space = TRUE, !.prev_was_flag = FALSE]]
        ELSE [cur |-> i1, st |-> [NoIdent(st) EXCEPT !.prev_was_space = FALSE]]

RestStep(i, st) ==
    LET c == lookahead(i)
        i1 == advance(i)
        c1 == lookahead(i1)
        i2 == advance(i1)
        c2 == lookahead(i2)
    IN  IF ~st.in_string /\ IsQuote(c)
        THEN [cur |-> i1, st |-> NoIdent([st EXCEPT !.in_string = TRUE, !.string_char = c])]
        ELSE IF st.in_string
        THEN IF c = BSL
             THEN [cur |-> IF c1 # NUL THEN i2 ELSE i1, st |-> st]
             ELSE IF c = st.string_char
                  THEN [cur |-> i1, st |-> [st EXCEPT !.in_string = FALSE]]
                  ELSE [cur |-> i1, st |-> st]
        ELSE IF c = "-"
        THEN IF c1 = "-"
             THEN [cur |-> i2,
                   st |-> NoIdent(IF is_identifier_start(c2) THEN ShellFlag(st) ELSE st)]
             ELSE [cur |-> i1,
                   st |-> NoIdent(IF is_identifier_start(c1) THEN ShellFlag(st) ELSE st)]
        ELSE IF c = "|"
        THEN IF c1 = "|"
             THEN [cur |-> i2, st |-> NoIdent(ShellPipe(st))]
             ELSE [cur |-> i1, st |-> NoIdent(IF c1 # "=" THEN ShellPipe(st) ELSE st)]
        ELSE IF c = "&"
        THEN IF c1 = "&"
             THEN [cur |-> i2, st |-> NoIdent(ShellPipe(st))]
             ELSE LET j == SkipChars(i1, Whitespace)
                  IN  [cur |-> j,
                       st |-> NoIdent(IF LineEnd(lookahead(j)) THEN ShellPipe(st) ELSE st)]
        ELSE IF c = ">"
        THEN [cur |-> i1,
              st |-> NoIdent(IF c1 = "=" THEN [st EXCEPT !.has_comparison = TRUE]
                             ELSE ShellRedirect(st))]
        ELSE IF c = "<"
        THEN [cur |-> i1,
              st |-> NoIdent(IF c1 = "=" THEN [st EXCEPT !.has_comparison = TRUE]
                             ELSE IF c1 # "<" THEN ShellRedirect(st) ELSE st)]
        ELSE IF c = "="
        THEN IF c1 = "=" /\ st.python_eval_depth = 0
             THEN [cur |-> i2,
                   st |-> NoIdent([st EXCEPT !.has_comparison = TRUE, !.prev_was_flag = FALSE])]
             ELSE IF st.prev_was_flag
                  THEN [cur |-> i1, st |-> NoIdent(st)]
                  ELSE IF st.python_eval_depth = 0
                       THEN [cur |-> i1,
                             st |-> NoIdent([st EXCEPT !.has_assignment = TRUE,
                                                       !.prev_was_flag = FALSE])]
                       ELSE [cur |-> i1, st |-> NoIdent(st)]
        ELSE IF c = "!"
        THEN [cur |-> i1,
              st |-> NoIdent(
                  IF c1 = "=" /\ st.python_eval_depth = 0
                  THEN [st EXCEPT !.has_comparison = TRUE]
                  ELSE IF st.prev_was_ident_no_space /\ c1 = "("
                       THEN [st EXCEPT !.has_macro_call = TRUE]
                       ELSE IF st.prev_was_ident_no_space /\ is_whitespace(c1)
                            THEN [st EXCEPT !.has_subprocess_macro = TRUE]
                            ELSE st)]
        ELSE IF c = ":"
        THEN [cur |-> i1,
              st |-> NoIdent(IF c1 = "=" /\ st.python_eval_depth = 0
                             THEN [st EXCEPT !.has_comparison = TRUE] ELSE st)]
        ELSE IF c = "(" /\ st.python_eval_depth > 0
        THEN [cur |-> i1,
              st |-> NoIdent([st EXCEPT !.python_eval_depth = st.python_eval_depth + 1])]
        ELSE IF c = ")" /\ st.python_eval_depth > 0
        THEN [cur |-> i1,
              st |-> NoIdent([st EXCEPT !.python_eval_depth = st.python_eval_depth - 1])]
        ELSE IF c = "(" /\ st.prev_was_ident_no_space /\ ~st.seen_shell_signal
        THEN [cur |-> i1, st |-> NoIdent([st EXCEPT !.has_call_parens = TRUE])]
        ELSE IF c = "[" /\ st.prev_was_ident_no_space /\ ~st.seen_shell_signal
        THEN [cur |-> i1, st |-> NoIdent([st EXCEPT !.has_subscript = TRUE])]
        ELSE IF c = "." /\ st.prev_was_ident_no_space /\ ~st.seen_shell_signal
        THEN [cur |-> i1, st |-> NoIdent([st EXCEPT !.has_attribute = TRUE])]
        ELSE IF is_identifier_start(c)
        THEN [cur |-> SkipChars(i, IdentifierChars),
              st |-> [st EXCEPT !.prev_was_ident_no_space = TRUE]]
        ELSE IF c = "$" /\ st.prev_was_space
        THEN [cur |-> i1,
              st |-> [NoIdent(IF is_identifier_start(c1) \/ c1 = "(" \/ c1 = "["
                              THEN ShellEnvArg(st) ELSE st)
                      EXCEPT !.prev_was_space = FALSE]]
        ELSE IF c = "@" /\ st.prev_was_space
        THEN IF c1 = "$"
             THEN [cur |-> i2,
                   st |-> [NoIdent(IF c2 = "(" THEN ShellEnvArg(st) ELSE st)
                           EXCEPT !.prev_was_space = FALSE]]
             ELSE IF c1 = "("
                  THEN [cur |-> i2,
                        st |-> [NoIdent(ShellEnvArg(st))
                                EXCEPT !.python_eval_depth = 1, !.prev_was_space = FALSE]]
                  ELSE [cur |-> i1, st |-> [NoIdent(st) EXCEPT !.prev_was_space = FALSE]]
        ELSE IF is_whitespace(c)
        THEN [cur |-> i1,
              st |-> [NoIdent(st) EXCEPT !.prev_was_space = TRUE, !.prev_was_flag = FALSE]]
        ELSE [cur |-> i1, st |-> [NoIdent(st) EXCEPT !.prev_was_space = FALSE]]

RECURSIVE RestOfLine(_, _)
RestOfLine(i, st) ==
    IF lookahead(i) # NUL /\ lookahead(i) # NL
    THEN LET n == RestStep(i, st) IN RestOfLine(n.cur, n.st)
    ELSE [cur |-> i, st |-> st]

\* A variant of the decision that lets the shell signals win.
DecisionShellFirst(st, first_ident) ==
    IF st.has_flag \/ st.has_pipe \/ st.has_redirect \/ st.has_env_arg
       \/ st.has_subprocess_macro
    THEN "DETECT_SUBPROCESS"
    ELSE IF st.has_assignment \/ st.has_comparison \/ st.has_call_parens
            \/ st.has_subscript \/ st.has_attribute \/ st.has_macro_call
         THEN "DETECT_NONE"
         ELSE IF Len(first_ident) > 0 /\ is_shell_command(first_ident)
              THEN "DETECT_SUBPROCESS"
              ELSE "DETECT_NONE"

(***************************************************************************)
(* detect_subprocess_line: the decision after the rest-of-line scan.       *)
(***************************************************************************)
Decision(st, first_ident) ==
    IF st.has_assignment \/ st.has_comparison \/ st.has_call_parens
       \/ st.has_subscript \/ st.has_attribute \/ st.has_macro_call
    THEN "DETECT_NONE"
    ELSE IF st.has_flag \/ st.has_pipe \/ st.has_redirect \/ st.has_env_arg
            \/ st.has_subprocess_macro
         THEN "DETECT_SUBPROCESS"
         ELSE IF Len(first_ident) > 0 /\ is_shell_command(first_ident)
              THEN "DETECT_SUBPROCESS"
              ELSE "DETECT_NONE"

(***************************************************************************)
(* detect_subprocess_line.  The value is the DetectResult, the cursor the  *)
(* lexer is left at (the detector advances the lexer handed to it), the    *)
(* out parameter subprocess_macro_end and the out parameter                *)
(* string_delimiter.                                                       *)
(***************************************************************************)
Detected(res, cur, macro_end, d) ==
    [res |-> res, cur |-> cur, macro_end |-> macro_end, d |-> d]

StringPrefixLetters == {"f", "F", "r", "R", "b", "B", "u", "U"}

RECURSIVE PrefixFlags(_, _, _)
PrefixFlags(ident, k, d) ==
    IF k > Len(ident) THEN d
    ELSE LET c == ident[k]
         IN  IF c = "f" \/ c = "F" THEN PrefixFlags(ident, k + 1, set_format(d))
             ELSE IF c = "r" \/ c = "R" THEN PrefixFlags(ident, k + 1, set_raw(d))
             ELSE IF c = "b" \/ c = "B" THEN PrefixFlags(ident, k + 1, set_bytes(d))
             ELSE PrefixFlags(ident, k + 1, d)

IsPathPrefix(ident) ==
    \/ Len(ident) = 1 /\ ident[1] \in {"p", "P"}
    \/ Len(ident) = 2 /\ ident[1] \in {"p", "P"} /\ ident[2] \in {"f", "F", "r", "R"}

With == <<"w", "i", "t", "h">>

\* The scan of the line after the first identifier (or after the opening
\* probes when there is none), from the special comma case on.
DetectRest(i, first_ident) ==
    LET ident_len == Len(first_ident)
        commas == SkipChars(i, {","})
        after == SkipChars(commas, Whitespace)
        comma_line == ident_len = 0 /\ lookahead(i) = ","
        start == IF comma_line THEN after ELSE i
        is_known_command == ident_len > 0 /\ is_shell_command(first_ident)
        rest == RestOfLine(start, RestInit(ident_len, is_known_command))
    IN  IF comma_line /\ LineEnd(lookahead(after))
        THEN Detected("DETECT_SUBPROCESS", after, 0, new_delimiter)
        ELSE Detected(Decision(rest.st, first_ident), rest.cur, 0, new_delimiter)

\* A variant without the test of the first identifier against the keywords.
DetectIdentifierAnyWord(i, pos0) ==
    LET e == ReadIdentifierEnd(i)
        first_ident == SubSeq(text, i, e - 1)
        ident_len == Len(first_ident)
        pos1 == pos0 + ident_len
        short_before_quote == ident_len >= 1 /\ ident_len <= 3 /\ IsQuote(lookahead(e))
        is_string_prefix == \A k \in 1..ident_len : first_ident[k] \in StringPrefixLetters
        \* identifier? or identifier??
        q1 == advance(e)
        q2 == IF lookahead(q1) = "?" THEN advance(q1) ELSE q1
        q3 == SkipChars(q2, Whitespace)
        help == lookahead(e) = "?"
        k == IF help THEN q3 ELSE e
        \* identifier!
        m == advance(k)
        m2 == SkipChars(m, Whitespace)
        bang == lookahead(k) = "!"
    IN  IF short_before_quote /\ is_string_prefix
        THEN Detected("DETECT_STRING", e, 0, PrefixFlags(first_ident, 1, new_delimiter))
        ELSE IF short_before_quote /\ IsPathPrefix(first_ident)
        THEN Detected("DETECT_PATH_PREFIX", e, 0, new_delimiter)
        ELSE IF help /\ LineEnd(lookahead(q3))
        THEN Detected("DETECT_NONE", q3, 0, new_delimiter)
        ELSE IF bang /\ is_whitespace(lookahead(m))
        THEN IF first_ident = With
             THEN Detected("DETECT_BLOCK_MACRO", m, 0, new_delimiter)
             ELSE Detected("DETECT_SUBPROCESS_MACRO", m2,
                           pos1 + 1 + (m2 - m), new_delimiter)
        ELSE DetectRest(IF bang THEN m ELSE k, first_ident)

\* A variant that leaves the blanks after identifier! unread.
DetectIdentifierBang(i, pos0) ==
    LET e == ReadIdentifierEnd(i)
        first_ident == SubSeq(text, i, e - 1)
        ident_len == Len(first_ident)
        pos1 == pos0 + ident_len
        short_before_quote == ident_len >= 1 /\ ident_len <= 3 /\ IsQuote(lookahead(e))
        is_string_prefix == \A k \in 1..ident_len : first_ident[k] \in StringPrefixLetters
        \* identifier? or identifier??
        q1 == advance(e)
        q2 == IF lookahead(q1) = "?" THEN advance(q1) ELSE q1
        q3 == SkipChars(q2, Whitespace)
        help == lookahead(e) = "?"
        k == IF help THEN q3 ELSE e
        \* identifier!
        m == advance(k)
        m2 == SkipChars(m, Whitespace)
        bang == lookahead(k) = "!"
    IN  IF short_before_quote /\ is_string_prefix
        THEN Detected("DETECT_STRING", e, 0, PrefixFlags(first_ident, 1, new_delimiter))
        ELSE IF short_before_quote /\ IsPathPrefix(first_ident)
        THEN Detected("DETECT_PATH_PREFIX", e, 0, new_delimiter)
        ELSE IF help /\ LineEnd(lookahead(q3))
        THEN Detected("DETECT_NONE", q3, 0, new_delimiter)
        ELSE IF is_python_keyword(first_ident) /\ ~(first_ident = With /\ bang)
        THEN Detected("DETECT_NONE", k, 0, new_delimiter)
        ELSE IF bang /\ is_whitespace(lookahead(m))
        THEN IF first_ident = With
             THEN Detected("DETECT_BLOCK_MACRO", m, 0, new_delimiter)
             ELSE Detected("DETECT_SUBPROCESS_MACRO", m,
                           pos1 + 1, new_delimiter)
        ELSE DetectRest(IF bang THEN m ELSE k, first_ident)

\* The first identifier, read at cursor i with pos characters counted so far.
DetectIdentifier(i, pos0) ==
    LET e == ReadIdentifierEnd(i)
        first_ident == SubSeq(text, i, e - 1)
        ident_len == Len(first_ident)
        pos1 == pos0 + ident_len
        short_before_quote == ident_len >= 1 /\ ident_len <= 3 /\ IsQuote(lookahead(e))
        is_string_prefix == \A k \in 1..ident_len : first_ident[k] \in StringPrefixLetters
        \* identifier? or identifier??
        q1 == advance(e)
        q2 == IF lookahead(q1) = "?" THEN advance(q1) ELSE q1
        q3 == SkipChars(q2, Whitespace)
        help == lookahead(e) = "?"
        k == IF help THEN q3 ELSE e
        \* identifier!
        m == advance(k)
        m2 == SkipChars(m, Whitespace)
        bang == lookahead(k) = "!"
    IN  IF short_before_quote /\ is_string_prefix
        THEN Detected("DETECT_STRING", e, 0, PrefixFlags(first_ident, 1, new_delimiter))
        ELSE IF short_before_quote /\ IsPathPrefix(first_ident)
        THEN Detected("DETECT_PATH_PREFIX", e, 0, new_delimiter)
        ELSE IF help /\ LineEnd(lookahead(q3))
        THEN Detected("DETECT_NONE", q3, 0, new_delimiter)
        ELSE IF is_python_keyword(first_ident) /\ ~(first_ident = With /\ bang)
        THEN Detected("DETECT_NONE", k, 0, new_delimiter)
        ELSE IF bang /\ is_whitespace(lookahead(m))
        THEN IF first_ident = With
             THEN Detected("DETECT_BLOCK_MACRO", m, 0, new_delimiter)
             ELSE Detected("DETECT_SUBPROCESS_MACRO", m2,
                           pos1 + 1 + (m2 - m), new_delimiter)
        ELSE DetectRest(IF bang THEN m ELSE k, first_ident)

\* The @identifier probe, entered with the cursor on the @.
DetectAt(i) ==
    LET a == advance(i)
        b == SkipChars(a, IdentifierChars)
        w == SkipChars(b, Whitespace)
        e == ReadIdentifierEnd(w)
        cmd == SubSeq(text, w, e - 1)
    IN  IF ~is_identifier_start(lookahead(a))
        THEN Detected("DETECT_NONE", a, 0, new_delimiter)
        ELSE IF lookahead(b) = "." \/ lookahead(b) = "("
        THEN Detected("DETECT_NONE", b, 0, new_delimiter)
        ELSE IF ~is_whitespace(lookahead(b))
        THEN Detected("DETECT_NONE", b, 0, new_delimiter)
        ELSE IF lookahead(w) \in {"/", ".", "~", "-"}
        THEN Detected("DETECT_SUBPROCESS", w, 0, new_delimiter)
        ELSE IF ~is_identifier_start(lookahead(w))
        THEN Detected("DETECT_NONE", w, 0, new_delimiter)
        ELSE IF is_shell_command(cmd)
        THEN Detected("DETECT_SUBPROCESS", e, 0, new_delimiter)
        ELSE Detected("DETECT_NONE", e, 0, new_delimiter)

detect_subprocess_line(i0) ==
    LET a == SkipChars(i0, Whitespace)
        \* . then ~ then $ then ! : each is stepped over when present
        b == IF lookahead(a) = "." THEN advance(a) ELSE a
        c == IF lookahead(b) = "~" THEN advance(b) ELSE b
        d == IF lookahead(c) = "$" THEN advance(c) ELSE c
        e == IF lookahead(d) = "!" THEN advance(d) ELSE d
        \* a second $ before the first identifier
        f == IF lookahead(e) = "$" THEN advance(e) ELSE e
    IN  IF lookahead(a) = "/"
        THEN Detected("DETECT_SUBPROCESS", a, 0, new_delimiter)
        ELSE IF b # a /\ lookahead(b) = "/"
        THEN Detected("DETECT_SUBPROCESS", b, 0, new_delimiter)
        ELSE IF c # b /\ lookahead(c) = "/"
        THEN Detected("DETECT_SUBPROCESS", c, 0, new_delimiter)
        ELSE IF d # c /\ (lookahead(d) = "(" \/ lookahead(d) = "[")
        THEN Detected("DETECT_NONE", d, 0, new_delimiter)
        ELSE IF e # d /\ (lookahead(e) = "(" \/ lookahead(e) = "[")
        THEN Detected("DETECT_NONE", e, 0, new_delimiter)
        ELSE IF lookahead(e) = "["
        THEN Detected("DETECT_NONE", e, 0, new_delimiter)
        ELSE IF lookahead(e) = "@"
        THEN DetectAt(e)
        ELSE IF is_identifier_start(lookahead(f))
        THEN DetectIdentifier(f, f - a)
        ELSE DetectRest(f, <<>>)

\* A variant that marks the end of SUBPROCESS_START after the detection.
scan_detected_marked(S, V, i, fcil, g0, result) ==
    LET g == [g0 EXCEPT !.via = "subprocess", !.det = result.res,
                        !.dstart = i, !.dcur = result.cur]
        q == OpenQuote(result.d, result.cur, i)
    IN  IF result.res = "DETECT_BLOCK_MACRO" /\ "BLOCK_MACRO_START" \in V
        THEN Result(TRUE, "BLOCK_MACRO_START", result.cur, S, g)
        ELSE IF result.res = "DETECT_SUBPROCESS_MACRO" /\ "SUBPROCESS_MACRO_START" \in V
        THEN Result(TRUE, "SUBPROCESS_MACRO_START", result.cur, S, g)
        ELSE IF result.res = "DETECT_SUBPROCESS" /\ "SUBPROCESS_START" \in V
        THEN Result(TRUE, "SUBPROCESS_START", result.cur, S, g)
        ELSE IF result.res = "DETECT_PATH_PREFIX" /\ "PATH_PREFIX" \in V
        THEN Result(TRUE, "PATH_PREFIX", result.cur, S, g)
        ELSE IF result.res = "DETECT_STRING" /\ "STRING_START" \in V
                /\ end_character(q.d) # NUL
        THEN Result(TRUE, "STRING_START", q.mark, PushDelimiter(S, q.d), g)
        ELSE scan_path_prefix(S, V, result.cur, i, fcil,
                              [g EXCEPT !.via = "none"])

(***************************************************************************)
(* scan, subprocess detection: SUBPROCESS_START, SUBPROCESS_MACRO_START,   *)
(* BLOCK_MACRO_START, and the PATH_PREFIX and STRING_START the detector    *)
(* reports.  When no token is emitted here the path-prefix and             *)
(* string-start steps go on from the cursor the detector left.             *)
(***************************************************************************)
\* The token for what the detector reported at cursor i: result is its value.
scan_detected(S, V, i, fcil, g0, result) ==
    LET g == [g0 EXCEPT !.via = "subprocess", !.det = result.res,
                        !.dstart = i, !.dcur = result.cur]
        q == OpenQuote(result.d, result.cur, i)
    IN  IF result.res = "DETECT_BLOCK_MACRO" /\ "BLOCK_MACRO_START" \in V
        THEN Result(TRUE, "BLOCK_MACRO_START", result.cur, S, g)
        ELSE IF result.res = "DETECT_SUBPROCESS_MACRO" /\ "SUBPROCESS_MACRO_START" \in V
        THEN Result(TRUE, "SUBPROCESS_MACRO_START", result.cur, S, g)
        ELSE IF result.res = "DETECT_SUBPROCESS" /\ "SUBPROCESS_START" \in V
        THEN Result(TRUE, "SUBPROCESS_START", i, S, g)
        ELSE IF result.res = "DETECT_PATH_PREFIX" /\ "PATH_PREFIX" \in V
        THEN Result(TRUE, "PATH_PREFIX", result.cur, S, g)
        ELSE IF result.res = "DETECT_STRING" /\ "STRING_START" \in V
                /\ end_character(q.d) # NUL
        THEN Result(TRUE, "STRING_START", q.mark, PushDelimiter(S, q.d), g)
        ELSE scan_path_prefix(S, V, result.cur, i, fcil,
                              [g EXCEPT !.via = "none"])

\* A variant that runs the detector inside brackets, after comments and on a
\* quote as well.
scan_subprocess_anywhere(S, V, i, mark, fcil, erm, within_brackets, g0) ==
    LET check_subprocess ==
            /\ \/ "SUBPROCESS_START" \in V
               \/ "SUBPROCESS_MACRO_START" \in V
               \/ "BLOCK_MACRO_START" \in V
            /\ ~erm
            /\ lookahead(i) # "#"
    IN  IF check_subprocess
        THEN scan_detected(S, V, i, fcil, g0, detect_subprocess_line(i))
        ELSE scan_path_prefix(S, V, i, mark, fcil, g0)

scan_subprocess(S, V, i, mark, fcil, erm, within_brackets, g0) ==
    LET looks_like_string == IsQuote(lookahead(i))
        check_subprocess ==
            /\ \/ "SUBPROCESS_START" \in V
               \/ "SUBPROCESS_MACRO_START" \in V
               \/ "BLOCK_MACRO_START" \in V
            /\ ~within_brackets /\ ~erm
            /\ fcil = -1
            /\ lookahead(i) # "#"
            /\ ~looks_like_string
    IN  IF check_subprocess
        THEN scan_detected(S, V, i, fcil, g0, detect_subprocess_line(i))
        ELSE scan_path_prefix(S, V, i, mark, fcil, g0)

(***************************************************************************)
(* scan, the keywords and / or in a subprocess.                            *)
(***************************************************************************)
WordBoundary(c) == ~isalnum(c) /\ c # "_"

\* A variant without the test of the character after the word.
scan_keywords_prefix(S, V, i, mark, fcil, erm, within_brackets, g0) ==
    LET g == [g0 EXCEPT !.via = "keyword"]
        i1 == advance(i)
        i2 == advance(i1)
        i3 == advance(i2)
    IN  IF "KEYWORD_AND" \in V /\ lookahead(i) = "a"
        THEN IF lookahead(i1) = "n" /\ lookahead(i2) = "d"
             THEN Result(TRUE, "KEYWORD_AND", i3, S, g)
             ELSE Result(FALSE, "NONE", mark, S, g)
        ELSE IF "KEYWORD_OR" \in V /\ lookahead(i) = "o"
        THEN IF lookahead(i1) = "r"
             THEN Result(TRUE, "KEYWORD_OR", i2, S, g)
             ELSE Result(FALSE, "NONE", mark, S, g)
        ELSE scan_subprocess(S, V, i, mark, fcil, erm, within_brackets, g0)

scan_keywords(S, V, i, mark, fcil, erm, within_brackets, g0) ==
    LET g == [g0 EXCEPT !.via = "keyword"]
        i1 == advance(i)
        i2 == advance(i1)
        i3 == advance(i2)
    IN  IF "KEYWORD_AND" \in V /\ lookahead(i) = "a"
        THEN IF lookahead(i1) = "n" /\ lookahead(i2) = "d" /\ WordBoundary(lookahead(i3))
             THEN Result(TRUE, "KEYWORD_AND", i3, S, g)
             ELSE Result(FALSE, "NONE", mark, S, g)
        ELSE IF "KEYWORD_OR" \in V /\ lookahead(i) = "o"
        THEN IF lookahead(i1) = "r" /\ WordBoundary(lookahead(i2))
             THEN Result(TRUE, "KEYWORD_OR", i2, S, g)
             ELSE Result(FALSE, "NONE", mark, S, g)
        ELSE scan_subprocess(S, V, i, mark, fcil, erm, within_brackets, g0)

\* A variant that takes the first & of && for the background operator when
\* LOGICAL_AND is not valid.
scan_operators_background(S, V, i, mark, fcil, erm, within_brackets, g0) ==
    LET g == [g0 EXCEPT !.via = "operator"]
        i1 == advance(i)
        i2 == advance(i1)
        any == "LOGICAL_AND" \in V \/ "LOGICAL_OR" \in V \/ "BACKGROUND_AMP" \in V
    IN  IF any /\ lookahead(i) = "&"
        THEN IF lookahead(i1) = "&" /\ "LOGICAL_AND" \in V
             THEN Result(TRUE, "LOGICAL_AND", i2, S, g)
             ELSE IF "BACKGROUND_AMP" \in V
                  THEN Result(TRUE, "BACKGROUND_AMP", i1, S, g)
                  ELSE Result(FALSE, "NONE", mark, S, g)
        ELSE IF any /\ lookahead(i) = "|" /\ "LOGICAL_OR" \in V
        THEN IF lookahead(i1) = "|"
             THEN Result(TRUE, "LOGICAL_OR", i2, S, g)
             ELSE Result(FALSE, "NONE", mark, S, g)
        ELSE scan_keywords(S, V, i, mark, fcil, erm, within_brackets, g0)

(***************************************************************************)
(* scan, the operators & && | ||.                                          *)
(***************************************************************************)
scan_operators(S, V, i, mark, fcil, erm, within_brackets, g0) ==
    LET g == [g0 EXCEPT !.via = "operator"]
        i1 == advance(i)
        i2 == advance(i1)
        any == "LOGICAL_AND" \in V \/ "LOGICAL_OR" \in V \/ "BACKGROUND_AMP" \in V
    IN  IF any /\ lookahead(i) = "&"
        THEN IF lookahead(i1) = "&"
             THEN IF "LOGICAL_AND" \in V
                  THEN Result(TRUE, "LOGICAL_AND", i2, S, g)
                  ELSE Result(FALSE, "NONE", mark, S, g)
             ELSE IF "BACKGROUND_AMP" \in V
                  THEN Result(TRUE, "BACKGROUND_AMP", i1, S, g)
                  ELSE Result(FALSE, "NONE", mark, S, g)
        ELSE IF any /\ lookahead(i) = "|" /\ "LOGICAL_OR" \in V
        THEN IF lookahead(i1) = "|"
             THEN Result(TRUE, "LOGICAL_OR", i2, S, g)
             ELSE Result(FALSE, "NONE", mark, S, g)
        ELSE scan_keywords(S, V, i, mark, fcil, erm, within_brackets, g0)

(***************************************************************************)
(* scan, the layout scan: blanks, line ends, full-line comments and line   *)
(* continuations are skipped.  Runs of spaces and of tabs are taken in one *)
(* step, which adds to indent_length what the iterations of the loop add.  *)
(***************************************************************************)
TabWidth == 8
IndentModulus == 65536

SkipToLineEnd(i) ==
    LET S == {j \in i..EndOfInput : LineEnd(lookahead(j))}
    IN  CHOOSE j \in S : \A k \in S : j <= k

\* A variant that skips a comment that trails code like a full-line comment.
RECURSIVE LayoutLoopComment(_, _, _, _, _)
LayoutLoopComment(V, i, found_end_of_line, indent_length, first_comment_indent_length) ==
    LET c == lookahead(i)
        spaces == SkipChars(i, {SP})
        tabs == SkipChars(i, {TAB})
        b1 == skip(i)
        b2 == IF lookahead(b1) = CR THEN skip(b1) ELSE b1
    IN  IF c = NL
        THEN LayoutLoopComment(V, skip(i), TRUE, 0, first_comment_indent_length)
        ELSE IF c = SP
        THEN LayoutLoopComment(V, spaces, found_end_of_line, indent_length + (spaces - i),
                        first_comment_indent_length)
        ELSE IF c = CR \/ c = FF
        THEN LayoutLoopComment(V, skip(i), found_end_of_line, 0, first_comment_indent_length)
        ELSE IF c = TAB
        THEN LayoutLoopComment(V, tabs, found_end_of_line,
                        indent_length + TabWidth * (tabs - i),
                        first_comment_indent_length)
        ELSE IF c = "#" /\ V \cap {"INDENT", "DEDENT", "NEWLINE", "EXCEPT"} # {}
        THEN IF FALSE
             THEN [abort |-> TRUE]
             ELSE LayoutLoopComment(V, skip(SkipToLineEnd(i)), found_end_of_line, 0,
                             IF first_comment_indent_length = -1
                             THEN indent_length ELSE first_comment_indent_length)
        ELSE IF c = BSL
        THEN IF lookahead(b2) = NL \/ eof(b2)
             THEN LayoutLoopComment(V, skip(b2), found_end_of_line, indent_length,
                             first_comment_indent_length)
             ELSE [abort |-> TRUE]
        ELSE IF eof(i)
        THEN [abort |-> FALSE, cur |-> i, found_end_of_line |-> TRUE,
              indent_length |-> 0,
              first_comment_indent_length |-> first_comment_indent_length]
        ELSE [abort |-> FALSE, cur |-> i, found_end_of_line |-> found_end_of_line,
              indent_length |-> indent_length,
              first_comment_indent_length |-> first_comment_indent_length]

RECURSIVE LayoutLoop(_, _, _, _, _)
LayoutLoop(V, i, found_end_of_line, indent_length, first_comment_indent_length) ==
    LET c == lookahead(i)
        spaces == SkipChars(i, {SP})
        tabs == SkipChars(i, {TAB})
        b1 == skip(i)
        b2 == IF lookahead(b1) = CR THEN skip(b1) ELSE b1
    IN  IF c = NL
        THEN LayoutLoop(V, skip(i), TRUE, 0, first_comment_indent_length)
        ELSE IF c = SP
        THEN LayoutLoop(V, spaces, found_end_of_line, indent_length + (spaces - i),
                        first_comment_indent_length)
        ELSE IF c = CR \/ c = FF
        THEN LayoutLoop(V, skip(i), found_end_of_line, 0, first_comment_indent_length)
        ELSE IF c = TAB
        THEN LayoutLoop(V, tabs, found_end_of_line,
                        indent_length + TabWidth * (tabs - i),
                        first_comment_indent_length)
        ELSE IF c = "#" /\ V \cap {"INDENT", "DEDENT", "NEWLINE", "EXCEPT"} # {}
        THEN IF ~found_end_of_line
             THEN [abort |-> TRUE]
             ELSE LayoutLoop(V, skip(SkipToLineEnd(i)), found_end_of_line, 0,
                             IF first_comment_indent_length = -1
                             THEN indent_length ELSE first_comment_indent_length)
        ELSE IF c = BSL
        THEN IF lookahead(b2) = NL \/ eof(b2)
             THEN LayoutLoop(V, skip(b2), found_end_of_line, indent_length,
                             first_comment_indent_length)
             ELSE [abort |-> TRUE]
        ELSE IF eof(i)
        THEN [abort |-> FALSE, cur |-> i, found_end_of_line |-> TRUE,
              indent_length |-> 0,
              first_comment_indent_length |-> first_comment_indent_length]
        ELSE [abort |-> FALSE, cur |-> i, found_end_of_line |-> found_end_of_line,
              indent_length |-> indent_length,
              first_comment_indent_length |-> first_comment_indent_length]

(***************************************************************************)
(* scan, layout emission: INDENT, DEDENT, NEWLINE.  The indent stack holds *)
(* uint16_t, so a pushed width is stored modulo 2^16.                      *)
(***************************************************************************)
PushIndent(S, indent_length) ==
    [S EXCEPT !.ind = Append(S.ind, indent_length % IndentModulus)]
PopIndent(S) == [S EXCEPT !.ind = Pop(S.ind)]

\* A variant that emits NEWLINE in error recovery mode as well.
NewlineInRecovery(V, erm) == "NEWLINE" \in V

NewlineAllowed(V, erm) == "NEWLINE" \in V /\ ~erm

DedentAllowed(S, V, lay, within_brackets) ==
    LET current_indent_length == Top(S.ind)
        next_tok_is_string_start == lookahead(lay.cur) \in {DQ, SQ, BQ}
    IN  /\ \/ "DEDENT" \in V
           \/ /\ "NEWLINE" \notin V
              /\ ~("STRING_START" \in V /\ next_tok_is_string_start)
              /\ ~within_brackets
        /\ lay.indent_length < current_indent_length
        /\ ~S.ifs
        /\ lay.first_comment_indent_length < current_indent_length

\* The layout token for what the loop over the white space found: lay.
scan_layout_token(S, V, p, i, erm, within_brackets, lay) ==
    LET mark == i
        g0 == [Trace0(p) EXCEPT !.tstart = IF lay.cur # i THEN lay.cur ELSE p]
        g == [g0 EXCEPT !.via = "layout"]
    IN  IF lay.abort
        THEN Result(FALSE, "NONE", mark, S, [Trace0(p) EXCEPT !.via = "layout"])
        ELSE IF lay.found_end_of_line /\ Len(S.ind) > 0 /\ "INDENT" \in V
                /\ lay.indent_length > Top(S.ind)
        THEN Result(TRUE, "INDENT", mark, PushIndent(S, lay.indent_length), g)
        ELSE IF lay.found_end_of_line /\ Len(S.ind) > 0
                /\ DedentAllowed(S, V, lay, within_brackets)
        THEN Result(TRUE, "DEDENT", mark, PopIndent(S), g)
        ELSE IF lay.found_end_of_line /\ NewlineAllowed(V, erm)
        THEN Result(TRUE, "NEWLINE", mark, S, g)
        ELSE scan_operators(S, V, lay.cur, mark, lay.first_comment_indent_length,
                            erm, within_brackets, g0)

scan_layout(S, V, p, i, erm, within_brackets) ==
    scan_layout_token(S, V, p, i, erm, within_brackets,
                      LayoutLoop(V, i, FALSE, 0, -1))

(***************************************************************************)
(* scan, string content: STRING_CONTENT and STRING_END for the delimiter   *)
(* on top of the stack.  The loop either returns from scan or runs to the  *)
(* end of input, and then the layout scan goes on from there.              *)
(***************************************************************************)
Returned(r) == [returned |-> TRUE, r |-> r]

\* A variant that closes a string at its quote with the content before it.
RECURSIVE ContentLoopClose(_, _, _, _)
ContentLoopClose(S, i, has_content, g) ==
    LET delimiter == Top(S.del)
        end_char == end_character(delimiter)
        c == lookahead(i)
        i1 == advance(i)
        i2 == advance(i1)
        i3 == advance(i2)
        \* raw string: the backslash, an escaped quote or backslash, a line end
        r1 == IF lookahead(i1) = end_character(delimiter) \/ lookahead(i1) = BSL
              THEN advance(i1) ELSE i1
        r2 == IF lookahead(r1) = CR
              THEN IF lookahead(advance(r1)) = NL
                   THEN advance(advance(r1)) ELSE advance(r1)
              ELSE IF lookahead(r1) = NL THEN advance(r1) ELSE r1
    IN  IF c = NUL
        THEN [returned |-> FALSE, cur |-> i]
        ELSE IF (c = "{" \/ c = "}") /\ is_format(delimiter)
        THEN Returned(Result(has_content, "STRING_CONTENT", i, S, g))
        ELSE IF c = BSL
        THEN IF is_raw(delimiter)
             THEN ContentLoopClose(S, r2, has_content, g)
             ELSE IF is_bytes(delimiter)
                  THEN IF lookahead(i1) \in {"N", "u", "U"}
                       THEN ContentLoopClose(S, i3, TRUE, g)
                       ELSE Returned(Result(has_content, "STRING_CONTENT", i, S, g))
                  ELSE Returned(Result(has_content, "STRING_CONTENT", i, S, g))
        ELSE IF c = end_char
        THEN IF is_triple(delimiter)
             THEN IF lookahead(i1) = end_char
                  THEN IF lookahead(i2) = end_char
                       THEN IF has_content
                            THEN Returned(Result(TRUE, "STRING_CONTENT", i, S, g))
                            ELSE Returned(Result(TRUE, "STRING_END", i3,
                                                 PopDelimiter(S), g))
                       ELSE Returned(Result(TRUE, "STRING_CONTENT", i2, S, g))
                  ELSE Returned(Result(TRUE, "STRING_CONTENT", i1, S, g))
             ELSE Returned(Result(TRUE, "STRING_END", i1, PopDelimiter(S), g))
        ELSE IF c = NL /\ has_content /\ ~is_triple(delimiter)
        THEN Returned(Result(FALSE, "NONE", i, S, g))
        ELSE ContentLoopClose(S, i1, TRUE, g)

\* The content loop without the return at the newline of a string that is
\* not triple-quoted: the newline is passed as content.
RECURSIVE ContentLoopNewline(_, _, _, _)
ContentLoopNewline(S, i, has_content, g) ==
    LET delimiter == Top(S.del)
        end_char == end_character(delimiter)
        c == lookahead(i)
        i1 == advance(i)
        i2 == advance(i1)
        i3 == advance(i2)
        \* raw string: the backslash, an escaped quote or backslash, a line end
        r1 == IF lookahead(i1) = end_character(delimiter) \/ lookahead(i1) = BSL
              THEN advance(i1) ELSE i1
        r2 == IF lookahead(r1) = CR
              THEN IF lookahead(advance(r1)) = NL
                   THEN advance(advance(r1)) ELSE advance(r1)
              ELSE IF lookahead(r1) = NL THEN advance(r1) ELSE r1
    IN  IF c = NUL
        THEN [returned |-> FALSE, cur |-> i]
        ELSE IF (c = "{" \/ c = "}") /\ is_format(delimiter)
        THEN Returned(Result(has_content, "STRING_CONTENT", i, S, g))
        ELSE IF c = BSL
        THEN IF is_raw(delimiter)
             THEN ContentLoopNewline(S, r2, has_content, g)
             ELSE IF is_bytes(delimiter)
                  THEN IF lookahead(i1) \in {"N", "u", "U"}
                       THEN ContentLoopNewline(S, i3, TRUE, g)
                       ELSE Returned(Result(has_content, "STRING_CONTENT", i, S, g))
                  ELSE Returned(Result(has_content, "STRING_CONTENT", i, S, g))
        ELSE IF c = end_char
        THEN IF is_triple(delimiter)
             THEN IF lookahead(i1) = end_char
                  THEN IF lookahead(i2) = end_char
                       THEN IF has_content
                            THEN Returned(Result(TRUE, "STRING_CONTENT", i, S, g))
                            ELSE Returned(Result(TRUE, "STRING_END", i3,
                                                 PopDelimiter(S), g))
                       ELSE Returned(Result(TRUE, "STRING_CONTENT", i2, S, g))
                  ELSE Returned(Result(TRUE, "STRING_CONTENT", i1, S, g))
             ELSE IF has_content
                  THEN Returned(Result(TRUE, "STRING_CONTENT", i, S, g))
                  ELSE Returned(Result(TRUE, "STRING_END", i1, PopDelimiter(S), g))
        ELSE ContentLoopNewline(S, i1, TRUE, g)

RECURSIVE ContentLoop(_, _, _, _)
ContentLoop(S, i, has_content, g) ==
    LET delimiter == Top(S.del)
        end_char == end_character(delimiter)
        c == lookahead(i)
        i1 == advance(i)
        i2 == advance(i1)
        i3 == advance(i2)
        \* raw string: the backslash, an escaped quote or backslash, a line end
        r1 == IF lookahead(i1) = end_character(delimiter) \/ lookahead(i1) = BSL
              THEN advance(i1) ELSE i1
        r2 == IF lookahead(r1) = CR
              THEN IF lookahead(advance(r1)) = NL
                   THEN advance(advance(r1)) ELSE advance(r1)
              ELSE IF lookahead(r1) = NL THEN advance(r1) ELSE r1
    IN  IF c = NUL
        THEN [returned |-> FALSE, cur |-> i]
        ELSE IF (c = "{" \/ c = "}") /\ is_format(delimiter)
        THEN Returned(Result(has_content, "STRING_CONTENT", i, S, g))
        ELSE IF c = BSL
        THEN IF is_raw(delimiter)
             THEN ContentLoop(S, r2, has_content, g)
             ELSE IF is_bytes(delimiter)
                  THEN IF lookahead(i1) \in {"N", "u", "U"}
                       THEN ContentLoop(S, i3, TRUE, g)
                       ELSE Returned(Result(has_content, "STRING_CONTENT", i, S, g))
                  ELSE Returned(Result(has_content, "STRING_CONTENT", i, S, g))
        ELSE IF c = end_char
        THEN IF is_triple(delimiter)
             THEN IF lookahead(i1) = end_char
                  THEN IF lookahead(i2) = end_char
                       THEN IF has_content
                            THEN Returned(Result(TRUE, "STRING_CONTENT", i, S, g))
                            ELSE Returned(Result(TRUE, "STRING_END", i3,
                                                 PopDelimiter(S), g))
                       ELSE Returned(Result(TRUE, "STRING_CONTENT", i2, S, g))
                  ELSE Returned(Result(TRUE, "STRING_CONTENT", i1, S, g))
             ELSE IF has_content
                  THEN Returned(Result(TRUE, "STRING_CONTENT", i, S, g))
                  ELSE Returned(Result(TRUE, "STRING_END", i1, PopDelimiter(S), g))
        ELSE IF c = NL /\ has_content /\ ~is_triple(delimiter)
        THEN Returned(Result(FALSE, "NONE", i, S, g))
        ELSE ContentLoop(S, i1, TRUE, g)

(***************************************************************************)
(* tree_sitter_xonsh_external_scanner_scan on the Scanner S = [ind, del,   *)
(* ifs], with the lexer at position p and the valid symbols V.             *)
(***************************************************************************)
\* A variant that gives up the string when the content loop returns false.
scan_content_abandon(S, p, V, error_recovery_mode, within_brackets, content) ==
    IF content.returned
    THEN IF content.r.ok
         THEN content.r
         ELSE [content.r EXCEPT !.del = Pop(S.del), !.ifs = FALSE]
    ELSE scan_layout(S, V, p, content.cur, error_recovery_mode, within_brackets)

\* scan after the brace escape: content is what the string content loop did.
scan_content(S, p, V, error_recovery_mode, within_brackets, content) ==
    IF content.returned
    THEN content.r
    ELSE scan_layout(S, V, p, content.cur, error_recovery_mode, within_brackets)

\* A variant whose ESCAPE_INTERPOLATION ends after the first brace.
scan_escape_one(S, p, V) ==
    LET error_recovery_mode == "STRING_CONTENT" \in V /\ "INDENT" \in V
        within_brackets ==
            "CLOSE_BRACE" \in V \/ "CLOSE_PAREN" \in V \/ "CLOSE_BRACKET" \in V
        open == Len(S.del) > 0
        p1 == advance(p)
        p2 == advance(p1)
        escape == /\ "ESCAPE_INTERPOLATION" \in V /\ open
                  /\ (lookahead(p) = "{" \/ lookahead(p) = "}")
                  /\ ~error_recovery_mode
                  /\ is_format(Top(S.del))
        in_string == "STRING_CONTENT" \in V /\ open /\ ~error_recovery_mode
    IN  IF escape
        THEN IF lookahead(p1) = lookahead(p)
             THEN Result(TRUE, "ESCAPE_INTERPOLATION", p1, S,
                         [Trace0(p) EXCEPT !.via = "escape"])
             ELSE Result(FALSE, "NONE", p, S, [Trace0(p) EXCEPT !.via = "escape"])
        ELSE scan_content(S, p, V, error_recovery_mode, within_brackets,
                          IF in_string
                          THEN ContentLoop(S, p, FALSE,
                                           [Trace0(p) EXCEPT !.via = "content"])
                          ELSE [returned |-> FALSE, cur |-> p])

scan(S, p, V) ==
    LET error_recovery_mode == "STRING_CONTENT" \in V /\ "INDENT" \in V
        within_brackets ==
            "CLOSE_BRACE" \in V \/ "CLOSE_PAREN" \in V \/ "CLOSE_BRACKET" \in V
        open == Len(S.del) > 0
        p1 == advance(p)
        p2 == advance(p1)
        escape == /\ "ESCAPE_INTERPOLATION" \in V /\ open
                  /\ (lookahead(p) = "{" \/ lookahead(p) = "}")
                  /\ ~error_recovery_mode
                  /\ is_format(Top(S.del))
        in_string == "STRING_CONTENT" \in V /\ open /\ ~error_recovery_mode
    IN  IF escape
        THEN IF lookahead(p1) = lookahead(p)
             THEN Result(TRUE, "ESCAPE_INTERPOLATION", p2, S,
                         [Trace0(p) EXCEPT !.via = "escape"])
             ELSE Result(FALSE, "NONE", p, S, [Trace0(p) EXCEPT !.via = "escape"])
        ELSE scan_content(S, p, V, error_recovery_mode, within_brackets,
                          IF in_string
                          THEN ContentLoop(S, p, FALSE,
                                           [Trace0(p) EXCEPT !.via = "content"])
                          ELSE [returned |-> FALSE, cur |-> p])
(***************************************************************************)
(* serialize and deserialize.  The buffer is a sequence of bytes 0..255;   *)
(* a value stored through (char) keeps its low 8 bits.                     *)
(***************************************************************************)
ByteModulus == 256
DelimiterCountMax == 255
SerializationBufferSize == 1024

Min(a, b) == IF a < b THEN a ELSE b

\* A variant that writes the delimiter count without the limit of 255.
serialize_unclamped(S) ==
    <<IF S.ifs THEN 1 ELSE 0, Len(S.del)>>
        \o S.del
        \o [k \in 1..(Len(S.ind) - 1) |-> S.ind[k + 1] % ByteModulus]

serialize(S) ==
    LET delimiter_count == Min(Len(S.del), DelimiterCountMax)
        room == SerializationBufferSize - (2 + delimiter_count)
        indent_count == Min(Len(S.ind) - 1, room)
    IN  <<IF S.ifs THEN 1 ELSE 0, delimiter_count>>
        \o SubSeq(S.del, 1, delimiter_count)
        \o [k \in 1..indent_count |-> S.ind[k + 1] % ByteModulus]

deserialize(S, buf) ==
    LET length == Len(buf)
        delimiter_count == buf[2]
    IN  IF length > 0
        THEN [ ind |-> <<0>> \o SubSeq(buf, 3 + delimiter_count, length),
               del |-> SubSeq(buf, 3, 2 + delimiter_count),
               ifs |-> buf[1] # 0 ]
        ELSE [ ind |-> <<0>>, del |-> <<>>, ifs |-> S.ifs ]

(***************************************************************************)
(* create: calloc, then deserialize with length 0.                         *)
(***************************************************************************)
create == deserialize([ind |-> <<>>, del |-> <<>>, ifs |-> FALSE], <<>>)

Scanner == [ind |-> indents, del |-> delimiters, ifs |-> inside_f_string]

(***************************************************************************)
(* The valid-symbol sets the host hands to scan: the parser contexts of    *)
(* the grammar, and error recovery, where every symbol is valid.           *)
(***************************************************************************)
InString == {"STRING_CONTENT", "STRING_END"}
InFormatString == {"STRING_CONTENT", "ESCAPE_INTERPOLATION", "STRING_END"}
SubprocessSymbols == {"SUBPROCESS_START", "SUBPROCESS_MACRO_START", "BLOCK_MACRO_START"}
OperatorSymbols ==
    {"LOGICAL_AND", "LOGICAL_OR", "BACKGROUND_AMP", "KEYWORD_AND", "KEYWORD_OR"}

ValidSets ==
    { {},
      {"STRING_START"},
      {"STRING_START", "PATH_PREFIX"},
      {"STRING_START", "SUBPROCESS_START"},
      {"STRING_START", "PATH_PREFIX", "DEDENT"} \cup SubprocessSymbols,
      {"STRING_START", "PATH_PREFIX", "CLOSE_PAREN"} \cup SubprocessSymbols,
      {"SUBPROCESS_MACRO_START"},
      InString,
      InFormatString,
      {"NEWLINE"},
      {"NEWLINE"} \cup OperatorSymbols,
      {"BACKGROUND_AMP", "KEYWORD_OR"},
      {"LOGICAL_AND", "LOGICAL_OR", "KEYWORD_AND"},
      {"INDENT"},
      {"DEDENT", "NEWLINE"},
      {"NEWLINE", "INDENT", "DEDENT", "EXCEPT"},
      {"STRING_CONTENT", "INDENT"},
      TokenType }

(***************************************************************************)
(* The host.  Scan is one call of scan at the committed position with one  *)
(* of the valid-symbol sets: when scan returns true the position moves to  *)
(* the marked end, when it returns false it stays.  Lex is the parser      *)
(* lexing one character itself.  Serialize copies the state into the       *)
(* buffer; Deserialize restores the buffer taken at the current position.  *)
(* The variable last records the latest step: for a call of scan its       *)
(* result, the positions it marked and whether the valid symbols put it in *)
(* error recovery mode.                                                    *)
(***************************************************************************)
NoScan(op) ==
    [ op |-> op, ok |-> FALSE, sym |-> "NONE", start |-> pos, endp |-> pos,
      tstart |-> pos, via |-> "none", det |-> "NA", dstart |-> 0, dcur |-> 0,
      erm |-> FALSE ]

Scanned(r, V) ==
    [ op |-> "scan", ok |-> r.ok, sym |-> r.sym, start |-> pos, endp |-> r.endp,
      tstart |-> r.tstart, via |-> r.via, det |-> r.det, dstart |-> r.dstart,
      dcur |-> r.dcur, erm |-> "STRING_CONTENT" \in V /\ "INDENT" \in V ]

Created ==
    /\ pos = 1
    /\ indents = create.ind
    /\ delimiters = create.del
    /\ inside_f_string = create.ifs
    /\ buffer = <<>>
    /\ last = NoScan("create")

\* The scanner and the lexer after a call of scan that returned r.
Return(r, V) ==
    /\ indents' = r.ind
    /\ delimiters' = r.del
    /\ inside_f_string' = r.ifs
    /\ pos' = IF r.ok THEN r.endp ELSE pos
    /\ buffer' = <<>>
    /\ last' = Scanned(r, V)
    /\ UNCHANGED text

ScanWith(V) == Return(scan(Scanner, pos, V), V)

Scan == \E V \in ValidSets : ScanWith(V)

Lex ==
    /\ ~eof(pos)
    /\ pos' = advance(pos)
    /\ buffer' = <<>>
    /\ last' = NoScan("lex")
    /\ UNCHANGED <<text, indents, delimiters, inside_f_string>>

Serialize ==
    /\ buffer' = serialize(Scanner)
    /\ last' = NoScan("serialize")
    /\ UNCHANGED <<text, pos, indents, delimiters, inside_f_string>>

Deserialize ==
    /\ Len(buffer) > 0
    /\ LET S == deserialize(Scanner, buffer)
       IN  /\ indents' = S.ind
           /\ delimiters' = S.del
           /\ inside_f_string' = S.ifs
    /\ last' = NoScan("deserialize")
    /\ UNCHANGED <<text, pos, buffer>>

(***************************************************************************)
(* The input texts.  Strings are an opening, every body over the body      *)
(* alphabet up to MaxBody characters, and a closing; layout texts are up   *)
(* to MaxLines lines; command lines are single lines of the two            *)
(* sublanguages.                                                           *)
(***************************************************************************)
MaxBody == 2
MaxLines == 3

Seqs(A, n) == UNION {[1..k -> A] : k \in 0..n}

Concat(ss) == 
    LET RECURSIVE C(_)
        C(k) == IF k > Len(ss) THEN <<>> ELSE ss[k] \o C(k + 1)
    IN  C(1)

StringOpenings ==
    { <<DQ>>, <<"f", DQ>>, <<"b", DQ>>, <<"r", DQ>>, <<DQ, DQ, DQ>> }
BodyAlphabet == {"{", BSL, NL, "N"}

\* The closing that matches an opening: its quote, once or three times.
StringClosing(o) == IF Len(o) = 3 THEN <<DQ, DQ, DQ>> ELSE <<DQ>>

\* Strings that are not an opening, a body and the matching closing:
\* unterminated ones, closing braces, nested and adjacent literals.
EdgeStrings ==
    { <<DQ, "a">>, <<DQ, DQ, DQ, "a", DQ>>, <<DQ, DQ, DQ, DQ, "a", DQ, DQ, DQ>>,
      <<"f", DQ, "}", "}", DQ>>, <<"f", DQ, "}", DQ>>, <<"f", DQ, "a", "{", "{">>,
      <<"f", DQ, "{", SQ, "a", SQ, "}", DQ>>, <<DQ, "a", DQ, SQ, "b", SQ>>,
      <<"b", DQ, BSL, "u", DQ, DQ>>, <<"b", DQ, "a", BSL, "N", DQ>>,
      <<"r", DQ, BSL, BSL, DQ>>, <<"r", DQ, BSL, DQ, DQ>>,
      <<"f", DQ, DQ, DQ, "{", "{", DQ, DQ, DQ>>, <<SQ, "a", DQ, SQ>> }

StringInputs ==
    { o \o b \o StringClosing(o) :
          o \in StringOpenings, b \in Seqs(BodyAlphabet, MaxBody) }
        \cup EdgeStrings

Lines ==
    { <<"x", NL>>, <<SP, "x", NL>>, <<SP, SP, "x", NL>>, <<SP, "#", NL>> }

\* Layouts with tabs, carriage returns, form feeds, continuations and no
\* final newline.
EdgeLayouts ==
    { <<TAB, "x">>, <<"x", NL, TAB, "x", NL, "x">>, <<"x", BSL, NL, SP, "x">>,
      <<"x", CR, NL, SP, "x">>, <<FF, SP, "x">>, <<"x", NL, SP, "x">>,
      <<"x", NL, SP, SP, "x", NL, SP, "x">>, <<NL, NL, "x">>,
      <<"(", NL, SP, "x", ")">>, <<"x", NL, "#", NL, SP, "x">>,
      <<"x", NL, SP, "x", NL, "#", NL, SP, "#", NL, "x">>,
      <<"x", NL, "#", NL, "l", "s">>, <<"x", SP, "#", NL, "x">> }

LayoutInputs == { Concat(ls) : ls \in Seqs(Lines, MaxLines) } \cup EdgeLayouts

CommandLines ==
    { <<"l", "s", SP, "-", "l", "a", NL>>,
      <<"x", SP, "=", SP, "1", NL>>,
      <<"e", "c", "h", "o", "!", SP, "\"", "h", "i", "\"", NL>>,
      <<"w", "i", "t", "h", "!", SP, "a", ":", NL>>,
      <<SP, "c", "!", SP, TAB, "x">>,
      <<"p", "\"", "/", "x", "\"", NL>>,
      <<"p", "f", SQ, "x", SQ>>,
      <<"$", "p", "\"", "x", "\"">>,
      <<"f", "r", "b", "u", "\"", "x", "\"">>,
      <<"i", "f", "\"", "a", "\"">>,
      <<"@", "a", SP, "\"", "x", "\"">>,
      <<"f", "\"", "a", "{", "b", "}", "c", "\"", NL>>,
      <<"a", SP, "&", "&", SP, "b">>,
      <<"a", SP, "&", SP, NL>>,
      <<"a", SP, "|", "|", SP, "b">>,
      <<"a", SP, "a", "n", "d", SP, "b">>,
      <<"o", "r", "_">>,
      <<"a", "n", "d", "y">>,
      <<"l", "s", "|", "w", "c">>,
      <<".", "/", "r", "u", "n">>,
      <<"~", "/", "x">>,
      <<"$", "(", "l", "s", ")">>,
      <<"!", "[", "l", "s", "]">>,
      <<"[", "1", "]">>,
      <<"@", "d", ".", "e">>,
      <<"@", "u", SP, ".", "/", "t">>,
      <<"@", "u", SP, "l", "s">>,
      <<"x", "?", NL>>,
      <<"x", "?", "?", SP, SP>>,
      <<"i", "f", SP, "x", ":", NL>>,
      <<",", ",", NL>>,
      <<"l", "s", SP, "o", ".", "t">>,
      <<"l", "s", SP, "-", "a", SP, "=", "1">>,
      <<"l", "s", SP, "-", "k", "=", "=", "v", "=", "w">>,
      <<"i", "f", SP, "-", "x">>,
      <<"a", SP, "<", "=", SP, "b">>,
      <<"f", ".", "g", "(", ")">>,
      <<"a", "[", "0", "]">>,
      <<"c", "d", SP, "$", "H">>,
      <<"x", "=", "=", "1">>,
      <<"x", SP, "!", "=", SP, "1">>,
      <<"x", SP, ":", "=", SP, "1">>,
      <<"a", SP, ">", SP, "b">>,
      <<"a", SP, ">", "=", SP, "b">>,
      <<"x", SP, "<", "<", SP, "2">>,
      <<"a", SP, "<", SP, "b">>,
      <<"-", "k", "=", "v">>,
      <<"l", "s", SP, "-", "-", "k", "=", "v", "=", "w">>,
      <<"a", SP, "@", "(", "b", "=", "1", ")">>,
      <<"a", SP, "@", "$", "(", "b", ")">>,
      <<"a", "!", SP, "b">>,
      <<"a", "!", "(", "b", ")">>,
      <<"a", SP, SQ, "b", "-", "c", SQ>>,
      <<"r", "b", SQ, "x", SQ>>,
      <<"u", "\"", "x", "\"">>,
      <<"f", "r", "\"", "{", "{", "\"">>,
      <<".", "5">>,
      <<"$", "X", SP, "y">>,
      <<"p", "r", "\"", "x", "\"">>,
      <<"p", "x", "\"">>,
      <<BQ, "a", BQ>>,
      <<"f", BQ, "a", BQ>> }

Inputs == StringInputs \cup LayoutInputs \cup CommandLines

Init == text \in Inputs /\ Created

Next == Scan \/ Lex \/ Serialize \/ Deserialize

Spec == Init /\ [][Next]_vars

(***************************************************************************)
(* Long inputs.  The widths and depths at which the stored integers wrap:  *)
(* a line indented by enough tabs to reach 2^8 and 2^16 columns, and more  *)
(* nested string openings than the serialized delimiter count can hold.    *)
(* The host opens strings, asks for layout tokens, lexes a word with the   *)
(* whitespace before it, and saves and restores the state.                 *)
(***************************************************************************)
WideIndent(n) ==
    [k \in 1..(n + 2) |-> IF k = 1 THEN NL ELSE IF k = n + 2 THEN "x" ELSE TAB]

DeepQuotes(n, tail) ==
    [k \in 1..(n + Len(tail)) |->
        IF k > n THEN tail[k - n] ELSE IF k % 2 = 1 THEN DQ ELSE SQ]

LongInputs ==
    { WideIndent(ByteModulus \div TabWidth),
      WideIndent(IndentModulus \div TabWidth),
      DeepQuotes(DelimiterCountMax + 1, <<>>),
      DeepQuotes(DelimiterCountMax, <<"f", DQ>>) }

LongValidSets == { {"INDENT"}, {"DEDENT"}, {"STRING_START"} }

\* An INDENT is zero-width, so where the stored width has wrapped below the
\* width of the line it can be emitted again and again: the host stops
\* asking at MaxIndents entries.
MaxIndents == 3

LongScan ==
    /\ Len(indents) < MaxIndents
    /\ \E V \in LongValidSets : ScanWith(V)

LexWord ==
    LET word == SkipChars(SkipChars(pos, {NL, SP, TAB}), IdentifierChars)
    IN  /\ word # pos
        /\ pos' = word
        /\ buffer' = <<>>
        /\ last' = NoScan("lex")
        /\ UNCHANGED <<text, indents, delimiters, inside_f_string>>

InitLong == text \in LongInputs /\ Created

NextLong == LongScan \/ LexWord \/ Serialize \/ Deserialize

SpecLong == InitLong /\ [][NextLong]_vars

(***************************************************************************)
(* One well-formed string literal as the whole input, and the host parsing *)
(* it: the opening with STRING_START valid, then the body with the symbols *)
(* of a string valid.  Where scan returns false the parser lexes an escape *)
(* sequence (a backslash and a character) or, in a format string, an       *)
(* interpolation (here always {x}) itself.                                 *)
(***************************************************************************)
MaxPieces == 2

LiteralOpenings ==
    { <<DQ>>, <<SQ>>, <<"f", DQ>>, <<"b", DQ>>, <<"r", DQ>>, <<"r", "b", DQ>>,
      <<DQ, DQ, DQ>>, <<"b", DQ, DQ, DQ>> }

IsTripleOpening(o) == Len(o) > 2 /\ o[Len(o) - 1] = o[Len(o)]
IsRawOrBytesOpening(o) == o[1] \in {"r", "b"}

\* The pieces of a body: a character, an escape sequence, a doubled brace,
\* an interpolation; a line break in a triple-quoted literal; \N, which is
\* two ordinary characters in a raw or a bytes literal.
LiteralPieces(o) ==
    { <<"a">>, <<BSL, "n">>, <<"{", "{">>, <<"{", "x", "}">> }
        \cup (IF IsTripleOpening(o) THEN { <<NL>> } ELSE {})
        \cup (IF IsRawOrBytesOpening(o) THEN { <<BSL, "N">> } ELSE {})

LiteralClosing(o) ==
    IF IsTripleOpening(o) THEN <<o[Len(o)], o[Len(o)], o[Len(o)]>>
    ELSE <<o[Len(o)]>>

Literals ==
    UNION { { o \o Concat(b) \o LiteralClosing(o) :
                b \in Seqs(LiteralPieces(o), MaxPieces) } :
            o \in LiteralOpenings }

Open ==
    /\ last.op = "create"
    /\ ScanWith({"STRING_START"})

Body ==
    /\ Len(delimiters) > 0
    /\ ScanWith(InFormatString)

\* What the parser lexes itself after scan has returned false in a string.
HostToken ==
    IF Len(delimiters) = 0 \/ scan(Scanner, pos, InFormatString).ok THEN 0
    ELSE IF lookahead(pos) = BSL /\ ~is_raw(Top(delimiters)) THEN 2
    ELSE IF lookahead(pos) = "{" /\ is_format(Top(delimiters)) THEN 3
    ELSE 0

Host ==
    /\ HostToken > 0
    /\ pos' = pos + HostToken
    /\ buffer' = <<>>
    /\ last' = NoScan("lex")
    /\ UNCHANGED <<text, indents, delimiters, inside_f_string>>

InitLiteral == text \in Literals /\ Created

NextLiteral == Open \/ Body \/ Host

SpecLiteral == InitLiteral /\ [][NextLiteral]_vars

(***************************************************************************)
(* Format strings with interpolations, and the host parsing them.  The     *)
(* texts are one format string whose pieces are a character, an            *)
(* interpolation of a name, and interpolations of a nested string.  None   *)
(* holds a brace outside an interpolation, so the braces before a position *)
(* tell how many interpolations are open there.  Where scan returns false  *)
(* at a brace the parser lexes it; inside an interpolation it lexes the    *)
(* name and the closing brace and asks for STRING_START at a quote.        *)
(***************************************************************************)
MaxNested == 2

NestedPieces ==
    { <<"a">>, <<"{", "x", "}">>, <<"{", SQ, "a", SQ, "}">>,
      <<"{", "f", SQ, "a", SQ, "}">>, <<"{", "f", SQ, "{", "x", "}", SQ, "}">> }

NestedLiterals ==
    { <<"f", DQ>> \o Concat(b) \o <<DQ>> : b \in Seqs(NestedPieces, MaxNested) }

Balance(p) ==
    Cardinality({k \in 1..(p - 1) : text[k] = "{"})
        - Cardinality({k \in 1..(p - 1) : text[k] = "}"})

InBody == Len(delimiters) > 0 /\ Len(delimiters) = Balance(pos) + 1
InInterpolation == Len(delimiters) > 0 /\ Len(delimiters) = Balance(pos)

OpenString ==
    /\ ~InBody
    /\ lookahead(pos) \in {DQ, SQ, "f"}
    /\ ScanWith({"STRING_START"})

BodyToken ==
    /\ InBody
    /\ ScanWith(InFormatString)

LexInterpolation ==
    /\ \/ InBody /\ lookahead(pos) = "{" /\ ~scan(Scanner, pos, InFormatString).ok
       \/ InInterpolation /\ lookahead(pos) \in {"x", "}"}
    /\ pos' = advance(pos)
    /\ buffer' = <<>>
    /\ last' = NoScan("lex")
    /\ UNCHANGED <<text, indents, delimiters, inside_f_string>>

InitNested == text \in NestedLiterals /\ Created

NextNested == OpenString \/ BodyToken \/ LexInterpolation

SpecNested == InitNested /\ [][NextNested]_vars

(***************************************************************************)
(* The same host with a reset: deserialize called with length 0, as the    *)
(* parser does when it starts again at the beginning of the text from no   *)
(* saved state.                                                            *)
(***************************************************************************)
DeserializeEmpty ==
    /\ LET S == deserialize(Scanner, <<>>)
       IN  /\ indents' = S.ind
           /\ delimiters' = S.del
           /\ inside_f_string' = S.ifs
    /\ pos' = 1
    /\ buffer' = <<>>
    /\ last' = [NoScan("deserialize") EXCEPT !.start = 1, !.endp = 1, !.tstart = 1]
    /\ UNCHANGED text

NextReset == OpenString \/ BodyToken \/ LexInterpolation \/ DeserializeEmpty

SpecReset == InitNested /\ [][NextReset]_vars

(***************************************************************************)
(* Properties.                                                             *)
(***************************************************************************)
ScanReturned == last.op = "scan" /\ last.ok
ScanFailed == last.op = "scan" /\ ~last.ok

(***************************************************************************)
(* C1: serialize then deserialize gives back the state: the same indent    *)
(* stack, the same delimiter stack and the same inside_f_string.           *)
(***************************************************************************)
RoundTripExact == deserialize(Scanner, serialize(Scanner)) = Scanner

(***************************************************************************)
(* C2: a call of scan that returns false leaves the indent stack, the      *)
(* delimiter stack and inside_f_string as they were before the call.       *)
(***************************************************************************)
FalseScanKeepsState ==
    [][(last'.op = "scan" /\ ~last'.ok)
          => /\ indents' = indents
             /\ delimiters' = delimiters
             /\ inside_f_string' = inside_f_string]_vars

\* C2: scan has returned false inside a string, in the content loop or at a
\* single brace, with a delimiter on the stack.
FalseScanInString ==
    /\ ScanFailed
    /\ last.via \in {"content", "escape"}
    /\ Len(delimiters) > 0

(***************************************************************************)
(* C3: a call of scan takes an indent stack that is non-empty, has 0 at    *)
(* the bottom and is strictly increasing to one that is so again.          *)
(***************************************************************************)
StrictlyIncreasing(ind) ==
    /\ Len(ind) > 0
    /\ ind[1] = 0
    /\ \A k \in 2..Len(ind) : ind[k] > ind[k - 1]

ScanKeepsIndentsIncreasing ==
    [][(last'.op = "scan" /\ StrictlyIncreasing(indents))
          => StrictlyIncreasing(indents')]_vars

(***************************************************************************)
(* C4: when inside_f_string is true the delimiter stack is non-empty and   *)
(* the delimiter on top has the format flag.                               *)
(***************************************************************************)
FormatOnTop ==
    inside_f_string => Len(delimiters) > 0 /\ is_format(Top(delimiters))

(***************************************************************************)
(* C5: the delimiter stack holds at most 255 entries.                      *)
(***************************************************************************)
DelimitersBounded == Len(delimiters) <= DelimiterCountMax

(***************************************************************************)
(* C6: the tokens of a well-formed string literal are STRING_START, then   *)
(* STRING_CONTENT and ESCAPE_INTERPOLATION with the one delimiter on the   *)
(* stack, then STRING_END at the end of the literal with the stack empty   *)
(* again; until STRING_END there is a next token, from scan or, where scan *)
(* returns false, an escape sequence or an interpolation of the parser.    *)
(***************************************************************************)
LiteralTokens ==
    /\ ScanReturned =>
          CASE last.sym = "STRING_START" -> Len(delimiters) = 1
            [] last.sym \in {"STRING_CONTENT", "ESCAPE_INTERPOLATION"} ->
                  Len(delimiters) = 1
            [] last.sym = "STRING_END" -> Len(delimiters) = 0 /\ eof(pos)
            [] OTHER -> FALSE
    /\ Len(delimiters) > 0 =>
          scan(Scanner, pos, InFormatString).ok \/ HostToken > 0

(***************************************************************************)
(* C7: at the end of input, with inside_f_string false and k entries above *)
(* the bottom of the indent stack, k calls of scan with DEDENT valid each  *)
(* return DEDENT and pop one entry, the stack is then <<0>>, and the next  *)
(* call does not return DEDENT.                                            *)
(***************************************************************************)
RECURSIVE DrainsDedents(_, _, _)
DrainsDedents(S, V, k) ==
    IF k = 0
    THEN S.ind = <<0>> /\ scan(S, pos, V).sym # "DEDENT"
    ELSE /\ scan(S, pos, V).sym = "DEDENT"
         /\ scan(S, pos, V).ind = Pop(S.ind)
         /\ DrainsDedents([S EXCEPT !.ind = Pop(S.ind)], V, k - 1)

DedentsAtEndOfInput ==
    (eof(pos) /\ ~inside_f_string)
        => \A V \in {{"DEDENT"}, {"DEDENT", "NEWLINE"}} :
               DrainsDedents(Scanner, V, Len(indents) - 1)

(***************************************************************************)
(* C8: when scan returns a token from the path-prefix or the string-start  *)
(* step after the detector has run, the detector has left the lexer at the *)
(* character where it started.                                             *)
(***************************************************************************)
DetectorPeeks ==
    (ScanReturned /\ last.det # "NA" /\ last.via \in {"path_prefix", "string_start"})
        => last.dcur = last.dstart

(***************************************************************************)
(* C9 as stated: every call of scan that returns true has marked the token *)
(* end strictly after the position the call started at.                    *)
(***************************************************************************)
NoZeroWidthToken == ScanReturned => last.endp > last.start

(***************************************************************************)
(* C9: the marked token end is never before the position the call started  *)
(* at, and it is strictly after it for every token other than NEWLINE,     *)
(* INDENT, DEDENT and SUBPROCESS_START.                                    *)
(***************************************************************************)
ZeroWidthSymbols == {"NEWLINE", "INDENT", "DEDENT", "SUBPROCESS_START"}

ZeroWidthOnlyLayoutAndSubprocess ==
    ScanReturned =>
        /\ last.endp >= last.start
        /\ last.sym \notin ZeroWidthSymbols => last.endp > last.start

\* C9: scan has returned a token that ends where the call started.
ZeroWidthTokenReturned ==
    ScanReturned /\ last.endp = last.start /\ last.sym \in ZeroWidthSymbols

(***************************************************************************)
(* C10 as stated: in error recovery mode scan returns none of NEWLINE,     *)
(* INDENT, DEDENT and ESCAPE_INTERPOLATION and leaves the indent stack     *)
(* unchanged.                                                              *)
(***************************************************************************)
RecoveryEmitsNoLayout ==
    [][(last'.op = "scan" /\ last'.erm)
          => /\ last'.ok => last'.sym \notin
                    {"NEWLINE", "INDENT", "DEDENT", "ESCAPE_INTERPOLATION"}
             /\ indents' = indents]_vars

(***************************************************************************)
(* C10: in error recovery mode scan returns neither NEWLINE nor            *)
(* ESCAPE_INTERPOLATION, and it changes the indent stack only by the push  *)
(* of an INDENT or the pop of a DEDENT it returns.                         *)
(***************************************************************************)
RecoveryEmitsNoNewlineOrEscape ==
    [][(last'.op = "scan" /\ last'.erm)
          => /\ last'.ok => last'.sym \notin {"NEWLINE", "ESCAPE_INTERPOLATION"}
             /\ indents' # indents
                   => /\ last'.ok
                      /\ \/ last'.sym = "INDENT" /\ Pop(indents') = indents
                         \/ last'.sym = "DEDENT" /\ indents' = Pop(indents)]_vars

\* C10: scan has returned INDENT or DEDENT in error recovery mode.
RecoveryLayoutToken ==
    ScanReturned /\ last.erm /\ last.sym \in {"INDENT", "DEDENT"}

(***************************************************************************)
(* C11: a SUBPROCESS_START token is zero-width.  Its marked end is the     *)
(* start of the token and the position where the detector was entered;     *)
(* the characters the call skipped before it are layout white space, the   *)
(* character at it is not blank, and the detector has read on from there.  *)
(***************************************************************************)
LayoutBlanks == {SP, TAB, NL, CR, FF, BSL}

SubprocessStartZeroWidth ==
    (ScanReturned /\ last.sym = "SUBPROCESS_START")
        => /\ last.endp = last.tstart
           /\ last.endp = last.dstart
           /\ \A k \in last.start..(last.endp - 1) : lookahead(k) \in LayoutBlanks
           /\ lookahead(last.endp) \notin LayoutBlanks \cup {NUL}
           /\ last.dcur >= last.endp

\* C11: SUBPROCESS_START has been returned after white space was skipped
\* and with the detector several characters beyond the token end.
SubprocessStartAfterBlanks ==
    /\ ScanReturned /\ last.sym = "SUBPROCESS_START"
    /\ last.start < last.endp
    /\ last.dcur > last.endp + 1

(***************************************************************************)
(* C12: the subprocess macro.  MacroAt(i) says that an identifier which is *)
(* no Python keyword starts at i and is directly followed by ! and a space *)
(* or tab; FirstOfLine(p, i) that only spaces and tabs lie between the     *)
(* start of the line and i, and that p is among them or is i.              *)
(***************************************************************************)
IdentifierEnd(i) == SkipChars(i, IdentifierChars)
IdentifierAt(i) == SubSeq(text, i, IdentifierEnd(i) - 1)

BangAfterIdentifier(i) ==
    /\ is_identifier_start(lookahead(i))
    /\ lookahead(IdentifierEnd(i)) = "!"
    /\ lookahead(IdentifierEnd(i) + 1) \in Whitespace

MacroAt(i) == BangAfterIdentifier(i) /\ IdentifierAt(i) \notin python_keywords

FirstOfLine(p, i) ==
    /\ p <= i
    /\ \E s \in 1..p :
          /\ s = 1 \/ text[s - 1] = NL
          /\ \A k \in s..(i - 1) : lookahead(k) \in Whitespace

MacroEnd(i) == SkipChars(IdentifierEnd(i) + 1, Whitespace)

\* The branches of scan that come before the detection of a macro.
EarlierBranch(V, i) ==
    \/ "STRING_CONTENT" \in V /\ "INDENT" \in V
    \/ "CLOSE_BRACE" \in V \/ "CLOSE_PAREN" \in V \/ "CLOSE_BRACKET" \in V
    \/ "STRING_CONTENT" \in V /\ Len(delimiters) > 0
    \/ "KEYWORD_AND" \in V /\ lookahead(i) = "a"
    \/ "KEYWORD_OR" \in V /\ lookahead(i) = "o"

IsMacroToken(r, i) ==
    /\ r.ok /\ r.sym = "SUBPROCESS_MACRO_START"
    /\ r.tstart = i
    /\ r.endp = MacroEnd(i)

IsBlockMacroToken(r, i) ==
    /\ r.ok /\ r.sym = "BLOCK_MACRO_START"
    /\ r.tstart = i
    /\ r.endp = IdentifierEnd(i) + 1

\* The first character after the spaces and tabs at the call position.
FirstNonBlank == SkipChars(pos, Whitespace)

\* The line at the call position begins with identifier! and a blank.
BangLine == BangAfterIdentifier(FirstNonBlank) /\ FirstOfLine(pos, FirstNonBlank)

MacroDue(V, i) == MacroAt(i) /\ "SUBPROCESS_MACRO_START" \in V

(* C12 as stated: whenever the first identifier of the line is no Python keyword and is directly followed by ! and a space or tab, a call of scan from the start of that line with SUBPROCESS_MACRO_START valid returns SUBPROCESS_MACRO_START over the identifier, the ! and the blanks after it. *)
MacroWheneverValid ==
    BangLine =>
        \A V \in ValidSets :
            MacroDue(V, FirstNonBlank)
                => IsMacroToken(scan(Scanner, pos, V), FirstNonBlank)

(* C12: when the first identifier of the line has at most 63 characters, is no Python keyword and is directly followed by ! and a space or tab, a call of scan from the start of that line with SUBPROCESS_MACRO_START valid, outside error recovery, brackets and strings and with no and / or keyword to try first, returns SUBPROCESS_MACRO_START over exactly the identifier, the ! and the blanks after it.  For the identifier with, scan never returns SUBPROCESS_MACRO_START, and returns BLOCK_MACRO_START over with! when that symbol is valid. *)
MacroCoversIdentifierBangBlanks ==
    BangLine =>
        \A V \in ValidSets :
            /\ ( /\ MacroDue(V, FirstNonBlank)
                 /\ IdentifierEnd(FirstNonBlank) - FirstNonBlank <= IdentBufferMax
                 /\ ~EarlierBranch(V, FirstNonBlank) )
                  => IsMacroToken(scan(Scanner, pos, V), FirstNonBlank)
            /\ IdentifierAt(FirstNonBlank) = With
                  => /\ scan(Scanner, pos, V).sym # "SUBPROCESS_MACRO_START"
                     /\ ("BLOCK_MACRO_START" \in V /\ ~EarlierBranch(V, FirstNonBlank))
                           => IsBlockMacroToken(scan(Scanner, pos, V), FirstNonBlank)

\* C12: SUBPROCESS_MACRO_START has been returned over an identifier, its !
\* and more than one blank, after the blanks that begin the line.
MacroTokenReturned ==
    /\ ScanReturned /\ last.sym = "SUBPROCESS_MACRO_START"
    /\ last.start < last.tstart
    /\ MacroAt(last.tstart)
    /\ last.endp = MacroEnd(last.tstart)
    /\ last.endp > IdentifierEnd(last.tstart) + 2

(***************************************************************************)
(* C13: the PATH_PREFIX token.                                             *)
(***************************************************************************)
PathPrefixes ==
    { <<a>> : a \in {"p", "P"} }
        \cup { <<a, b>> : a \in {"p", "P"}, b \in {"f", "F", "r", "R"} }

TokenText == SubSeq(text, last.tstart, last.endp - 1)

(* C13: whenever scan returns PATH_PREFIX the token is p or P, optionally followed by one of f, F, r, R, and the character after the token is a single or double quote; a call of scan with PATH_PREFIX valid that finds such letters without a quote after them, having run no line detection, returns false. *)
PathPrefixIsLettersBeforeQuote ==
    /\ (ScanReturned /\ last.sym = "PATH_PREFIX")
          => /\ TokenText \in PathPrefixes
             /\ IsQuote(lookahead(last.endp))
    /\ (last.op = "scan" /\ last.via = "path_prefix" /\ last.det = "NA"
          /\ ~IsQuote(lookahead(SkipChars(last.tstart, {"p", "P", "f", "F", "r", "R"}))))
          => ~last.ok

(***************************************************************************)
(* C14: the bytes serialize writes.  Serialized says the buffer holds what *)
(* serialize returned for the present state.                               *)
(***************************************************************************)
Serialized == last.op = "serialize"

SavedDelimiters == Min(Len(delimiters), DelimiterCountMax)

\* The indents that fit into the buffer after the delimiters.
SavedIndents ==
    Min(Len(indents) - 1, SerializationBufferSize - (2 + SavedDelimiters))

(* C14: after serialize, byte 0 is 1 when inside_f_string is set and 0 when not; byte 1 is the number of open delimiters, or 255 when there are more; the bytes after it are that many delimiters from the bottom of the stack upwards; then comes one byte for each indent from index 1 on, as far as the buffer has room, the width itself when it is below 256; and the number of bytes is at most the size of the serialization buffer. *)
SerializedLayout ==
    Serialized =>
        /\ buffer[1] = (IF inside_f_string THEN 1 ELSE 0)
        /\ buffer[2] = SavedDelimiters
        /\ \A k \in 1..SavedDelimiters : buffer[2 + k] = delimiters[k]
        /\ Len(buffer) = 2 + SavedDelimiters + SavedIndents
        /\ \A k \in 1..SavedIndents :
              /\ buffer[2 + SavedDelimiters + k] \in 0..(ByteModulus - 1)
              /\ indents[k + 1] < ByteModulus
                    => buffer[2 + SavedDelimiters + k] = indents[k + 1]
        /\ Len(buffer) <= SerializationBufferSize

\* C14: the state has been serialized with more than 255 open delimiters.
SerializedDeepStack ==
    /\ Serialized
    /\ Len(delimiters) > DelimiterCountMax
    /\ buffer[2] = DelimiterCountMax
    /\ Len(buffer) = 2 + DelimiterCountMax

(* C15: after serialize, the byte of every indent wider than 255 columns is 255, and deserialize of the buffer restores that indent as 255. *)
WideIndentClampedTo255 ==
    Serialized =>
        \A k \in 1..SavedIndents :
            indents[k + 1] >= ByteModulus
                => /\ buffer[2 + SavedDelimiters + k] = ByteModulus - 1
                   /\ deserialize(Scanner, buffer).ind[k + 1] = ByteModulus - 1

(***************************************************************************)
(* C16: the prefix letters of a STRING_START token and the flags of the    *)
(* delimiter it pushed.                                                    *)
(***************************************************************************)
TokenPrefix == {k \in last.tstart..(last.endp - 1) : text[k] \in StringPrefixLetters}

TokenHas(letters) == \E k \in TokenPrefix : text[k] \in letters

(* C16: whenever scan returns STRING_START without having run the line detection first, the token holds at most 3 prefix letters from f, F, r, R, b, B, u, U before the quote, and the delimiter pushed is a format string exactly when f or F is among them, raw exactly when r or R is, bytes exactly when b or B is. *)
StringStartPrefixAtMost3 ==
    (ScanReturned /\ last.sym = "STRING_START" /\ last.det = "NA")
        => /\ Cardinality(TokenPrefix) <= 3
           /\ is_format(Top(delimiters)) <=> TokenHas({"f", "F"})
           /\ is_raw(Top(delimiters)) <=> TokenHas({"r", "R"})
           /\ is_bytes(Top(delimiters)) <=> TokenHas({"b", "B"})

(***************************************************************************)
(* C17: the order of INDENT, DEDENT and NEWLINE.  The comments the layout  *)
(* scan skipped are the # characters before its cursor that have only      *)
(* spaces and tabs between the start of their line and themselves; the     *)
(* indent of such a comment is the width of those blanks.                  *)
(***************************************************************************)
BlanksBefore(k) ==
    LET S == {j \in 1..k : \A m \in j..(k - 1) : text[m] \in Whitespace}
    IN  CHOOSE j \in S : \A m \in S : j <= m

IsComment(k) ==
    /\ text[k] = "#"
    /\ BlanksBefore(k) = 1 \/ text[BlanksBefore(k) - 1] \in {NL, CR, FF}

CommentIndent(k) ==
    Cardinality({m \in BlanksBefore(k)..(k - 1) : text[m] = SP})
        + TabWidth * Cardinality({m \in BlanksBefore(k)..(k - 1) : text[m] = TAB})

SkippedComments(lay) == {k \in pos..(lay.cur - 1) : IsComment(k)}

\* scan goes to the layout scan at once: no string content or escaped brace
\* is tried first.
LayoutFirst(V) ==
    ~( /\ Len(delimiters) > 0
       /\ V \cap {"STRING_CONTENT", "ESCAPE_INTERPOLATION"} # {}
       /\ ~("STRING_CONTENT" \in V /\ "INDENT" \in V) )

NoCommentAtTop(lay) ==
    \A k \in SkippedComments(lay) : CommentIndent(k) < Top(indents)

IndentDue(V, lay) == "INDENT" \in V /\ lay.indent_length > Top(indents)

DedentDue(V, lay, comments_below) ==
    /\ lay.indent_length < Top(indents)
    /\ ~inside_f_string
    /\ comments_below
    /\ \/ "DEDENT" \in V
       \/ /\ "NEWLINE" \notin V
          /\ V \cap {"CLOSE_BRACE", "CLOSE_PAREN", "CLOSE_BRACKET"} = {}
          /\ ~(lookahead(lay.cur) \in {DQ, SQ, BQ} /\ "STRING_START" \in V)

NewlineDue(V) == "NEWLINE" \in V /\ ~("STRING_CONTENT" \in V /\ "INDENT" \in V)

LayoutDecision(V, lay, r, comments_below) ==
    IF IndentDue(V, lay)
    THEN r.ok /\ r.sym = "INDENT" /\ r.ind = Append(indents, lay.indent_length)
    ELSE IF DedentDue(V, lay, comments_below)
    THEN r.ok /\ r.sym = "DEDENT" /\ r.ind = Pop(indents)
    ELSE IF NewlineDue(V)
    THEN r.ok /\ r.sym = "NEWLINE" /\ r.ind = indents
    ELSE r.sym \notin {"INDENT", "DEDENT", "NEWLINE"} /\ r.ind = indents

LayoutOrder(V, lay, r, comments_below) ==
    (~lay.abort /\ lay.found_end_of_line)
        => /\ LayoutDecision(V, lay, r, comments_below)
           /\ lay.indent_length = Top(indents)
                 => r.sym \notin {"INDENT", "DEDENT"} /\ r.ind = indents

LayoutOrderAny(V, lay) ==
    LayoutOrder(V, lay, scan(Scanner, pos, V), NoCommentAtTop(lay))

(* C17: when the layout scan of a call of scan has seen a newline or the end of input, the call returns INDENT and pushes the width if INDENT is valid and the width is above the top of the indent stack; otherwise DEDENT, popping one entry, if the width is below the top, inside_f_string is false, no skipped comment had an indent at or above the top, and DEDENT is valid or else NEWLINE is not valid, no closing bracket is valid and the next character is not a quote with STRING_START valid; otherwise NEWLINE if NEWLINE is valid outside error recovery; otherwise none of the three.  A width equal to the top gives neither INDENT nor DEDENT and leaves the stack as it was. *)
LayoutOrderNoCommentAtTop ==
    \A V \in ValidSets :
        LayoutFirst(V) => LayoutOrderAny(V, LayoutLoop(V, pos, FALSE, 0, -1))

(***************************************************************************)
(* C18: where the DEDENT tokens of a line stop.  A DEDENT is zero-width,   *)
(* so the layout scan of the next call starts where this one started and   *)
(* finds the same line; more DEDENT tokens follow while the width of that  *)
(* line is below the top of the stack.                                     *)
(***************************************************************************)
DedentLeaves(lay, r) ==
    (r.ok /\ r.sym = "DEDENT") => lay.indent_length <= Top(r.ind)

(* C18: when scan returns DEDENT where DEDENT is valid, the top of the indent stack it leaves is not below the width of the line the DEDENT is returned for, so that the last DEDENT of the line leaves the width of the line on top. *)
DedentStopsAtLineWidth ==
    \A V \in ValidSets :
        (LayoutFirst(V) /\ "DEDENT" \in V)
            => DedentLeaves(LayoutLoop(V, pos, FALSE, 0, -1),
                            scan(Scanner, pos, V))

(***************************************************************************)
(* C19: inside_f_string between the calls of scan, while the host parses a *)
(* format string with interpolations.                                      *)
(***************************************************************************)
InFormatBody == InBody /\ is_format(Top(delimiters))

(* C19: in every state between two calls of scan, inside_f_string is true exactly when the top delimiter is a format string and the position is in its body, between its quotes and outside its interpolations; so it is false while an interpolation is open and true again in the body after an interpolation that held a nested string. *)
InsideFStringTracksBody == inside_f_string <=> InFormatBody

(* C20: after deserialize has been called with length 0 the state is the created one, whatever it was before: the indent stack is 0 alone, the delimiter stack is empty and inside_f_string is false. *)
DeserializeEmptyGivesCreated ==
    (last.op = "deserialize" /\ Len(buffer) = 0)
        => /\ indents = <<0>>
           /\ delimiters = <<>>
           /\ inside_f_string = FALSE

(***************************************************************************)
(* C21: the characters of a STRING_START token.                            *)
(***************************************************************************)
PrefixEnd == SkipChars(last.tstart, StringPrefixLetters)

(* C21: whenever scan returns STRING_START, the token is a run of the prefix letters f, F, r, R, b, B, u, U followed by one quote character or by three equal quote characters, and nothing else. *)
StringStartIsPrefixAndQuotes ==
    (ScanReturned /\ last.sym = "STRING_START")
        => /\ IsQuote(lookahead(PrefixEnd))
           /\ \/ last.endp = PrefixEnd + 1
              \/ /\ last.endp = PrefixEnd + 3
                 /\ lookahead(PrefixEnd + 1) = lookahead(PrefixEnd)
                 /\ lookahead(PrefixEnd + 2) = lookahead(PrefixEnd)

(***************************************************************************)
(* C22: the escaped brace of a format string.                              *)
(***************************************************************************)
AtBraceInFormat ==
    /\ Len(delimiters) > 0
    /\ is_format(Top(delimiters))
    /\ lookahead(pos) \in {"{", "}"}

EscapeValid(V) ==
    "ESCAPE_INTERPOLATION" \in V /\ ~("STRING_CONTENT" \in V /\ "INDENT" \in V)

KeepsState(r) ==
    r.ind = indents /\ r.del = delimiters /\ r.ifs = inside_f_string

EscapeOrNothing(r) ==
    IF lookahead(pos + 1) = lookahead(pos)
    THEN /\ r.ok /\ r.sym = "ESCAPE_INTERPOLATION"
         /\ r.tstart = pos /\ r.endp = pos + 2
         /\ KeepsState(r)
    ELSE ~r.ok /\ KeepsState(r)

(* C22: with ESCAPE_INTERPOLATION valid outside error recovery, a format string on top of the delimiter stack and { or } as the next character, scan returns ESCAPE_INTERPOLATION over exactly the two braces when the character after it is the same brace, and returns false when it is not; the state is unchanged in both cases. *)
EscapeInterpolationTwoBraces ==
    AtBraceInFormat =>
        \A V \in ValidSets :
            EscapeValid(V) => EscapeOrNothing(scan(Scanner, pos, V))

\* C22: ESCAPE_INTERPOLATION has been returned over two closing braces.
EscapedBraceReturned ==
    /\ ScanReturned /\ last.sym = "ESCAPE_INTERPOLATION"
    /\ last.endp = last.start + 2
    /\ lookahead(last.start) = "}"
    /\ Len(delimiters) > 0 /\ is_format(Top(delimiters))

(***************************************************************************)
(* C23: content up to the closing quotes, then STRING_END.  The string on  *)
(* top of the stack is read from the position pos.  A plain character is   *)
(* one the content loop passes with its ordinary step: not the quote of    *)
(* the string, a backslash, a brace of a format string or the newline of a *)
(* string that is not triple-quoted.                                       *)
(***************************************************************************)
TopQuote == end_character(Top(delimiters))
TopTriple == is_triple(Top(delimiters))

Plain(c) ==
    /\ c \notin {NUL, BSL, TopQuote}
    /\ ~(c \in {"{", "}"} /\ is_format(Top(delimiters)))
    /\ ~(c = NL /\ ~TopTriple)

\* The first position from pos on whose character is not plain.
PlainEnd ==
    LET S == {j \in pos..EndOfInput : ~Plain(lookahead(j))}
    IN  CHOOSE j \in S : \A k \in S : j <= k

QuotesAt(q) ==
    IF lookahead(q) # TopQuote THEN 0
    ELSE IF lookahead(q + 1) # TopQuote THEN 1
    ELSE IF lookahead(q + 2) # TopQuote THEN 2
    ELSE 3

ClosingAt(q) == IF TopTriple THEN QuotesAt(q) = 3 ELSE QuotesAt(q) >= 1
ClosingLength == IF TopTriple THEN 3 ELSE 1

ContentValid(V) ==
    "STRING_CONTENT" \in V /\ ~("STRING_CONTENT" \in V /\ "INDENT" \in V)

IsContentToken(r, q) ==
    /\ r.ok /\ r.sym = "STRING_CONTENT"
    /\ r.tstart = pos /\ r.endp = q
    /\ KeepsState(r)

IsEndToken(r, q) ==
    /\ r.ok /\ r.sym = "STRING_END"
    /\ r.tstart = q /\ r.endp = q + ClosingLength
    /\ r.del = Pop(delimiters) /\ r.ind = indents

ContentThenEnd(V, q) ==
    /\ IsContentToken(scan(Scanner, pos, V), q)
    /\ IsEndToken(scan(Scanner, q, V), q)

(* C23: in a string, when plain characters are followed by the closing quote, or by three quote characters in a triple-quoted string, scan with STRING_CONTENT valid returns STRING_CONTENT up to the closing quotes and leaves the delimiter on the stack, and the next call returns STRING_END over the closing quotes and pops it; in a triple-quoted string one or two quote characters that no third follows are returned inside STRING_CONTENT and the delimiter stays. *)
ContentBeforeStringEnd ==
    Len(delimiters) > 0 =>
        \A V \in ValidSets :
            ContentValid(V) =>
                /\ (PlainEnd > pos /\ ClosingAt(PlainEnd))
                      => ContentThenEnd(V, PlainEnd)
                /\ (TopTriple /\ QuotesAt(PlainEnd) \in {1, 2})
                      => IsContentToken(scan(Scanner, pos, V),
                                        PlainEnd + QuotesAt(PlainEnd))

\* C23: STRING_END has been returned for a triple-quoted string directly
\* after a STRING_CONTENT that ended at its three closing quotes.
StringEndAfterContent ==
    /\ ScanReturned /\ last.sym = "STRING_END"
    /\ last.endp = last.tstart + 3
    /\ last.tstart > 4
    /\ lookahead(last.tstart - 1) \notin {DQ, SQ, BSL}

(* C24: whenever scan returns STRING_END, the token is the closing of the string and nothing more: one quote character, or three equal quote characters. *)
StringEndIsClosingQuotes ==
    (ScanReturned /\ last.sym = "STRING_END")
        => /\ last.endp - last.tstart \in {1, 3}
           /\ \A k \in last.tstart..(last.endp - 1) :
                 /\ lookahead(k) \in {DQ, SQ, BQ}
                 /\ lookahead(k) = lookahead(last.tstart)

(***************************************************************************)
(* C25: the backslash in the content of a string that is not raw.          *)
(***************************************************************************)
BytesLetterAt(q) ==
    /\ is_bytes(Top(delimiters))
    /\ lookahead(q) = BSL
    /\ lookahead(q + 1) \in {"N", "u", "U"}

ContentUpTo(r, q) ==
    IF q > pos THEN IsContentToken(r, q) ELSE ~r.ok /\ KeepsState(r)

(* C25: in a string that is not raw, with STRING_CONTENT valid outside error recovery: in a bytes string a backslash with N, u or U after it is passed as two characters of content and the character after the letter is examined as any other, so that a closing quote directly after the letter ends a STRING_CONTENT that holds the backslash and the letter; every other backslash ends the content before the backslash, with STRING_CONTENT when characters came before it and with no token when none did. *)
BackslashInContent ==
    (Len(delimiters) > 0 /\ ~is_raw(Top(delimiters)) /\ lookahead(PlainEnd) = BSL)
        => \A V \in ValidSets :
              ContentValid(V) =>
                  IF BytesLetterAt(PlainEnd)
                  THEN ClosingAt(PlainEnd + 2)
                          => IsContentToken(scan(Scanner, pos, V), PlainEnd + 2)
                  ELSE ContentUpTo(scan(Scanner, pos, V), PlainEnd)

(* C26: in a string that is not triple-quoted, with STRING_CONTENT valid outside error recovery: when the scan passes at least one plain character of content and then meets a newline before the closing quote, it returns no token, the delimiter stays on the stack and inside_f_string keeps its value. *)
NewlineInStringAborts ==
    (Len(delimiters) > 0 /\ ~TopTriple /\ PlainEnd > pos /\ lookahead(PlainEnd) = NL)
        => \A V \in ValidSets :
              ContentValid(V) =>
                  LET r == scan(Scanner, pos, V)
                  IN  ~r.ok /\ r.sym = "NONE" /\ KeepsState(r)

\* A content scan has stopped at the newline of a string that is not
\* triple-quoted, after content, and returned no token.
NewlineInStringReached ==
    /\ ScanFailed /\ last.via = "content"
    /\ Len(delimiters) > 0 /\ ~TopTriple
    /\ last.endp = PlainEnd /\ PlainEnd > pos
    /\ lookahead(PlainEnd) = NL

(***************************************************************************)
(* C27..C30: the rest-of-line scan of the detector.  The properties are    *)
(* stated for a line that opens, after blanks, with an identifier and      *)
(* whose identifier is followed by neither a quote, a question mark nor an *)
(* exclamation mark: when the identifier is not a Python keyword the       *)
(* detector entered at the cursor i0 goes to the rest-of-line scan at the  *)
(* end of the identifier.                                                  *)
(***************************************************************************)
LineIdentStart(i0) == SkipChars(i0, Whitespace)
LineIdentEnd(i0) == ReadIdentifierEnd(LineIdentStart(i0))
LineIdent(i0) == SubSeq(text, LineIdentStart(i0), LineIdentEnd(i0) - 1)

IdentifierLine(i0) ==
    /\ is_identifier_start(lookahead(LineIdentStart(i0)))
    /\ lookahead(LineIdentEnd(i0)) \notin {DQ, SQ, "?", "!"}

ReachesRest(i0) == IdentifierLine(i0) /\ ~is_python_keyword(LineIdent(i0))

\* The flags at the end of the rest-of-line scan of such a line.
RestFlags(i0) ==
    RestOfLine(LineIdentEnd(i0),
               RestInit(Len(LineIdent(i0)), is_shell_command(LineIdent(i0)))).st

PythonSignal(st) ==
    \/ st.has_assignment \/ st.has_comparison \/ st.has_call_parens
    \/ st.has_subscript \/ st.has_attribute \/ st.has_macro_call

ShellSignal(st) ==
    \/ st.has_flag \/ st.has_pipe \/ st.has_redirect \/ st.has_env_arg
    \/ st.has_subprocess_macro

DetectorRan == last.op = "scan" /\ last.det # "NA"

(* C27: when the detector has run on a line that reaches the rest-of-line scan and that scan has set one of has_assignment, has_comparison, has_call_parens, has_subscript, has_attribute and has_macro_call, the detector has returned NONE and the scan has not returned SUBPROCESS_START, whatever shell signals the line has and whether or not its first identifier is a known shell command. *)
PythonSignalsOverride ==
    (DetectorRan /\ ReachesRest(last.dstart) /\ PythonSignal(RestFlags(last.dstart)))
        => last.det = "DETECT_NONE" /\ last.sym # "SUBPROCESS_START"

\* The detector has returned NONE for a line that opens with a known shell
\* command and has both a shell signal and a Python signal.
PythonSignalOverShellSignal ==
    /\ DetectorRan /\ ReachesRest(last.dstart)
    /\ PythonSignal(RestFlags(last.dstart))
    /\ ShellSignal(RestFlags(last.dstart))
    /\ is_shell_command(LineIdent(last.dstart))
    /\ last.det = "DETECT_NONE"

\* A line that opens with a keyword, the case of with! apart.
KeywordLine(i0) ==
    /\ is_identifier_start(lookahead(LineIdentStart(i0)))
    /\ is_python_keyword(LineIdent(i0))
    /\ ~(LineIdent(i0) = With /\ lookahead(LineIdentEnd(i0)) = "!")

KnownCommandLine ==
    /\ DetectorRan /\ ReachesRest(last.dstart)
    /\ is_shell_command(LineIdent(last.dstart))

(* C29: when the first identifier of a line that reaches the rest-of-line scan is a known shell command, the scan ends with has_call_parens, has_subscript and has_attribute unset, whatever follows the identifiers of the line, and unless the line has an assignment, a comparison or a macro call the detector returns SUBPROCESS. *)
KnownCommandDisablesPythonSignals ==
    KnownCommandLine
        => LET st == RestFlags(last.dstart)
           IN  /\ ~st.has_call_parens /\ ~st.has_subscript /\ ~st.has_attribute
               /\ ~(st.has_assignment \/ st.has_comparison \/ st.has_macro_call)
                     => last.det = "DETECT_SUBPROCESS"

\* A known command whose line has a dot directly after an identifier has been
\* detected as a subprocess.
KnownCommandWithDottedName ==
    /\ KnownCommandLine
    /\ \E j \in LineIdentEnd(last.dstart)..Len(text) :
          lookahead(j) = "." /\ is_identifier_char(lookahead(j - 1))
    /\ last.det = "DETECT_SUBPROCESS"

\* The characters the rest-of-line scan of the line at i0 reads, for a line
\* without quotes.
RestRange(i0) ==
    LineIdentEnd(i0)..(RestOfLine(LineIdentEnd(i0), RestInit(1, FALSE)).cur - 1)

NoQuotes(i0) == \A j \in RestRange(i0) : ~IsQuote(lookahead(j))

LessThanAt(j) == lookahead(j) = "<"
\* A < that is neither half of << nor the start of <=.
SingleLessThan(j) ==
    LessThanAt(j) /\ ~LessThanAt(j - 1) /\ lookahead(j + 1) \notin {"<", "="}
LessEqualAt(j) == LessThanAt(j) /\ ~LessThanAt(j - 1) /\ lookahead(j + 1) = "="

(* C30: in the rest-of-line scan of a line without quotes, a <= sets has_comparison and a single < sets has_redirect, while << sets neither: a line with no > and no single < ends the scan with has_redirect unset, and a line without an = sign ends it with has_comparison unset. *)
ShiftIsNoRedirect ==
    (DetectorRan /\ ReachesRest(last.dstart) /\ NoQuotes(last.dstart))
        => LET st == RestFlags(last.dstart)
               R == RestRange(last.dstart)
           IN  /\ (\E j \in R : LessEqualAt(j)) => st.has_comparison
               /\ (\E j \in R : SingleLessThan(j)) => st.has_redirect
               /\ (\A j \in R : lookahead(j) # ">" /\ ~SingleLessThan(j))
                     => ~st.has_redirect
               /\ (\A j \in R : lookahead(j) # "=") => ~st.has_comparison

\* C31: the = sign in the rest-of-line scan.  A flag is a - or -- directly
\* before the first character of an identifier; an = is in flag context when
\* a flag comes before it with no blank and no == in between.
SingleEqualAt(j) ==
    lookahead(j) = "=" /\ lookahead(j - 1) # "=" /\ lookahead(j + 1) # "="

FlagStartAt(k) ==
    /\ lookahead(k) = "-"
    /\ \/ is_identifier_start(lookahead(k + 1))
       \/ lookahead(k + 1) = "-" /\ is_identifier_start(lookahead(k + 2))

InFlagContext(i0, j) ==
    \E k \in RestRange(i0) :
        /\ k < j /\ FlagStartAt(k)
        /\ \A m \in k..(j - 1) :
              /\ ~is_whitespace(lookahead(m))
              /\ ~(lookahead(m) = "=" /\ lookahead(m + 1) = "=")

NoPythonEval(i0) == \A j \in RestRange(i0) : lookahead(j) # "@"

(* C31: in the rest-of-line scan of a line without quotes and without @, a single = in flag context does not set has_assignment, the first one after the flag or a later one of the same word, so that a line whose single = signs are all in flag context ends the scan with has_assignment unset and, having no other Python signal, is detected as SUBPROCESS; a single = outside flag context sets has_assignment. *)
FlagEqualsIsNoAssignment ==
    (DetectorRan /\ ReachesRest(last.dstart) /\ NoQuotes(last.dstart)
     /\ NoPythonEval(last.dstart))
        => LET st == RestFlags(last.dstart)
               R == RestRange(last.dstart)
               flagged == {j \in R : SingleEqualAt(j) /\ InFlagContext(last.dstart, j)}
               bare == {j \in R : SingleEqualAt(j) /\ ~InFlagContext(last.dstart, j)}
           IN  /\ bare = {} => ~st.has_assignment
               /\ bare # {} => st.has_assignment
               /\ (flagged # {} /\ ~PythonSignal(st)) => last.det = "DETECT_SUBPROCESS"

\* A line with two = signs in the word of one flag has been detected as a
\* subprocess.
FlagWithTwoEquals ==
    /\ DetectorRan /\ ReachesRest(last.dstart) /\ NoQuotes(last.dstart)
    /\ NoPythonEval(last.dstart)
    /\ Cardinality({j \in RestRange(last.dstart) :
                       SingleEqualAt(j) /\ InFlagContext(last.dstart, j)}) = 2
    /\ last.det = "DETECT_SUBPROCESS"

\* C32: where the detector is not run.  The layout scan of a call at pos
\* with the valid symbols V ends at lay.cur; a # between pos and lay.cur is a
\* full-line comment the call skipped.
WithinBrackets(V) == V \cap {"CLOSE_PAREN", "CLOSE_BRACKET", "CLOSE_BRACE"} # {}
LayoutAt(V) == LayoutLoop(V, pos, FALSE, 0, -1)
CommentSkipped(lay) == \E k \in pos..(lay.cur - 1) : lookahead(k) = "#"

DetectorBarred(V, lay) ==
    \/ WithinBrackets(V)
    \/ /\ LayoutFirst(V) /\ ~lay.abort
       /\ CommentSkipped(lay) \/ IsQuote(lookahead(lay.cur))

NoSubprocessToken(r) == r.sym \notin SubprocessSymbols /\ r.det = "NA"

(* C32: for every set of valid symbols that holds SUBPROCESS_START, SUBPROCESS_MACRO_START or BLOCK_MACRO_START, a scan call made with CLOSE_PAREN, CLOSE_BRACKET or CLOSE_BRACE valid, or whose layout scan skips a full-line comment, or whose layout scan ends at a single or double quote, does not run the detector and returns none of SUBPROCESS_START, SUBPROCESS_MACRO_START and BLOCK_MACRO_START. *)
NoSubprocessInBracketsCommentsQuotes ==
    \A V \in ValidSets :
        (V \cap SubprocessSymbols # {} /\ DetectorBarred(V, LayoutAt(V)))
            => NoSubprocessToken(scan(Scanner, pos, V))

\* A scan has returned no token at the start of a line the detector takes for
\* a subprocess, and the valid symbols that bar the detector by the brackets
\* allow SUBPROCESS_START.
SubprocessLineInBrackets ==
    /\ ScanFailed /\ last.det = "NA" /\ last.start = pos
    /\ Len(delimiters) = 0
    /\ detect_subprocess_line(pos).res = "DETECT_SUBPROCESS"
    /\ \E V \in ValidSets : WithinBrackets(V) /\ "SUBPROCESS_START" \in V
                             /\ ~("STRING_CONTENT" \in V /\ "INDENT" \in V)

\* C33 and C34: the operators and keywords of a subprocess.  The call at pos
\* with the valid symbols V goes to the layout scan at once, the layout scan
\* ends at a = lay.cur and returns no layout token.
AfterLayout(V, lay) == LayoutFirst(V) /\ ~lay.abort
NoLayoutToken(r) == r.via # "layout"

IsToken(r, sym, a, n) ==
    /\ r.ok /\ r.sym = sym
    /\ r.tstart = a /\ r.endp = a + n
    /\ KeepsState(r)

AmpersandToken(V, a, r) ==
    IF lookahead(a + 1) = "&"
    THEN IF "LOGICAL_AND" \in V THEN IsToken(r, "LOGICAL_AND", a, 2) ELSE ~r.ok
    ELSE IF "BACKGROUND_AMP" \in V THEN IsToken(r, "BACKGROUND_AMP", a, 1) ELSE ~r.ok

BarToken(a, r) ==
    IF lookahead(a + 1) = "|" THEN IsToken(r, "LOGICAL_OR", a, 2) ELSE ~r.ok

OperatorToken(V, lay, r) ==
    AfterLayout(V, lay)
        => /\ (lookahead(lay.cur) = "&"
               /\ V \cap {"LOGICAL_AND", "LOGICAL_OR", "BACKGROUND_AMP"} # {}
               /\ NoLayoutToken(r))
                 => AmpersandToken(V, lay.cur, r)
           /\ (lookahead(lay.cur) = "|" /\ "LOGICAL_OR" \in V /\ NoLayoutToken(r))
                 => BarToken(lay.cur, r)

(* C33: on an input with an & or a | ahead, for every set of valid symbols, when the layout scan returns no layout token and ends at an & with LOGICAL_AND, LOGICAL_OR or BACKGROUND_AMP valid: before a second & the scan returns LOGICAL_AND over the two characters if LOGICAL_AND is valid and no token otherwise; before another character it returns BACKGROUND_AMP over the one character if BACKGROUND_AMP is valid and no token otherwise.  When it ends at a | with LOGICAL_OR valid the scan returns LOGICAL_OR over the two characters of || and no token for a lone |. *)
AmpersandAndBarTokens ==
    (\E k \in pos..Len(text) : text[k] \in {"&", "|"})
        => \A V \in ValidSets : OperatorToken(V, LayoutAt(V), scan(Scanner, pos, V))

\* A scan has returned no token at the first & of && (LOGICAL_AND was not
\* valid).
FirstAmpersandRefused ==
    /\ ScanFailed /\ last.via = "operator" /\ last.start = pos
    /\ lookahead(SkipChars(pos, Whitespace)) = "&"
    /\ lookahead(SkipChars(pos, Whitespace) + 1) = "&"

\* The word w stands at a and the character after it is not a letter, a
\* digit or an underscore.
WordAt(a, w) ==
    /\ \A k \in 1..Len(w) : lookahead(a + k - 1) = w[k]
    /\ lookahead(a + Len(w)) \notin LowerCase \cup UpperCase \cup Digits \cup {"_"}

KeywordOnlyForWord(V, r, sym, w) ==
    r.sym = sym
        => /\ sym \in V
           /\ WordAt(r.tstart, w)
           /\ r.endp = r.tstart + Len(w)
           /\ KeepsState(r)

KeywordToken(V, lay, r) ==
    /\ KeywordOnlyForWord(V, r, "KEYWORD_AND", <<"a", "n", "d">>)
    /\ KeywordOnlyForWord(V, r, "KEYWORD_OR", <<"o", "r">>)
    /\ AfterLayout(V, lay)
          => /\ ("KEYWORD_AND" \in V /\ lookahead(lay.cur) = "a"
                 /\ ~WordAt(lay.cur, <<"a", "n", "d">>) /\ NoLayoutToken(r)) => ~r.ok
             /\ ("KEYWORD_OR" \in V /\ lookahead(lay.cur) = "o"
                 /\ ~WordAt(lay.cur, <<"o", "r">>) /\ NoLayoutToken(r)) => ~r.ok

\* The last scan returned the keyword token sym: it is the word w.
KeywordReturnedIsWord(sym, w) ==
    (ScanReturned /\ last.sym = sym)
        => WordAt(last.tstart, w) /\ last.endp = last.tstart + Len(w)

(* C34: a KEYWORD_AND (KEYWORD_OR) token that scan has returned is exactly the three letters of and (the two letters of or) and the character after it is not a letter, a digit or an underscore; and for every set of valid symbols, on an input with an a or an o ahead, a scan that returns KEYWORD_AND (KEYWORD_OR) was called with it valid, and with KEYWORD_AND (KEYWORD_OR) valid a word that begins with a (with o) and is not the word and (or), a longer word included, gives no token. *)
KeywordAndOrWholeWord ==
    /\ KeywordReturnedIsWord("KEYWORD_AND", <<"a", "n", "d">>)
    /\ KeywordReturnedIsWord("KEYWORD_OR", <<"o", "r">>)
    /\ (\E k \in pos..Len(text) : text[k] \in {"a", "o"})
          => \A V \in ValidSets : KeywordToken(V, LayoutAt(V), scan(Scanner, pos, V))

\* The scan has returned KEYWORD_AND for the word and between blanks.
KeywordAndReturned ==
    /\ ScanReturned /\ last.sym = "KEYWORD_AND"
    /\ last.endp = last.tstart + 3
    /\ lookahead(last.endp) = SP

\* C35: the two places where the layout scan gives up.  From pos the loop
\* passes the blanks of the line, and with them the line ends, before it
\* meets the # or the backslash.
LineBlanks == {SP, TAB, CR, FF}
CommentSymbols == {"INDENT", "DEDENT", "NEWLINE", "EXCEPT"}

TrailingCommentAt(V) ==
    /\ V \cap CommentSymbols # {}
    /\ lookahead(SkipChars(pos, LineBlanks)) = "#"

StrayBackslashAt ==
    LET a == SkipChars(pos, LineBlanks \cup {NL})
        b == IF lookahead(a + 1) = CR THEN a + 2 ELSE a + 1
    IN  lookahead(a) = BSL /\ lookahead(b) # NL /\ ~eof(b)

NoTokenNoChange(r) == ~r.ok /\ r.sym = "NONE" /\ KeepsState(r)

(* C35: for every set of valid symbols with which scan goes to the layout scan at once, the call returns no token and leaves the indent stack, the delimiter stack and inside_f_string as they were in two cases: when, with INDENT, DEDENT, NEWLINE or EXCEPT valid, a # follows the blanks at the lookahead with no newline before it, and when the blanks and line ends at the lookahead are followed by a backslash that is not followed by a newline, by a carriage return and a newline, or by the end of input. *)
LayoutAborts ==
    (lookahead(SkipChars(pos, LineBlanks \cup {NL})) \in {"#", BSL})
        => \A V \in ValidSets :
              (LayoutFirst(V) /\ (TrailingCommentAt(V) \/ StrayBackslashAt))
                  => NoTokenNoChange(scan(Scanner, pos, V))

\* The layout scan has given up at a # that trails code on its line.
TrailingCommentRefused ==
    /\ ScanFailed /\ last.via = "layout" /\ last.start = pos
    /\ pos > 1 /\ lookahead(pos - 1) = "x"
    /\ lookahead(SkipChars(pos, LineBlanks)) = "#"

\* The end-character bits set in the flags of a delimiter.
EndCharacterBits(d) == {b \in {SingleQuote, DoubleQuote, BackQuote} : HasFlag(d, b)}

(* C36: in every reachable state each delimiter on the stack has exactly one end-character bit set, the single quote or the double quote and never the backquote, and a STRING_START token ends with a single or a double quote: none is returned for a backquote, with or without prefix letters. *)
DelimitersHaveOneQuote ==
    /\ \A k \in 1..Len(delimiters) :
          /\ Cardinality(EndCharacterBits(delimiters[k])) = 1
          /\ ~HasFlag(delimiters[k], BackQuote)
          /\ end_character(delimiters[k]) \in {SQ, DQ}
    /\ (ScanReturned /\ last.sym = "STRING_START")
          => lookahead(last.endp - 1) \in {SQ, DQ}

\* A string in single quotes has been opened inside a string in double
\* quotes.
BothQuotesOnStack ==
    /\ ScanReturned /\ last.sym = "STRING_START"
    /\ Len(delimiters) = 2
    /\ end_character(delimiters[1]) = DQ
    /\ end_character(delimiters[2]) = SQ

====
